---- MODULE Spec2Model ----
(***************************************************************************)
(* Model of the acquisition pipeline of BilibiliRelationMap: the HTTP      *)
(* client of services/biliApi.ts (rate limiter, retry policy, request      *)
(* loop), the cache of utils/cacheManager.ts and the request               *)
(* de-duplication of getCommonFollowings.                                  *)
(*                                                                         *)
(* The code reads Date.now() only to form differences, so the model keeps  *)
(* the differences: the time since the last grant of the rate limiter, the *)
(* time left on every running timer and the time left to every cache       *)
(* entry, all in milliseconds.  JavaScript runs one handler at a time, so   *)
(* every action below is one run-to-completion step of the event loop: the *)
(* synchronous part of a call up to the point where it parks on a timer or *)
(* on the network, a timer callback, or a network callback together with   *)
(* the promise continuations it triggers.                                  *)
(***************************************************************************)
EXTENDS Integers, Sequences, FiniteSets, TLC

----------------------------------------------------------------------------
(* Bounds of the model *)

\* number of getCommonFollowings invocations made by the callers
NCallers == 3
\* number of distinct user identifiers (vmid) the callers ask for
NVmids == 2
\* one small step of the clock, in milliseconds
TickMs == 150
\* inside request(), Math.random() is drawn from
\* { k / RandomSteps : k \in 0..RandomSteps-1 }
RandomSteps == 2
\* number of calls made one after another in the sequential specification
NSeqCallers == 2
\* while requests run concurrently the upstream answers with a retryable
\* failure at most this many times in all
MaxFaults == 2
\* attempt indexes tried by the stand-alone check of calculateBackoffDelay
MaxAttemptIdx == 5
\* longest page list served when the whole load is followed to its end
MaxPageItems == 2
\* getCommonFollowings calls of one aggregation that may fail
MaxAggFaults == 2
MaxFollows == 3
MaxCommon == 2

----------------------------------------------------------------------------
(* Program constants *)

MIN_REQUEST_INTERVAL_MS == 300

DEFAULT_RETRY_CONFIG ==
    [maxRetries |-> 3, baseDelayMs |-> 1000, maxDelayMs |-> 10000]

\* cacheManager: expiryDays * 24 * 60 * 60 * 1000 with expiryDays = 1
CacheTtlMs == 1 * 24 * 60 * 60 * 1000

\* application codes of the upstream API
CODE_OK == 0
CODE_RISK_CONTROL == 0 - 412
\* any other non-zero application code (a request error)
CODE_OTHER == 0 - 400

----------------------------------------------------------------------------
(* Strings.  A message is a sequence of phrases; String.includes is the    *)
(* search for a contiguous sub-sequence.                                   *)

RECURSIVE Pow2(_)
Pow2(n) == IF n = 0 THEN 1 ELSE 2 * Pow2(n - 1)

Min(a, b) == IF a <= b THEN a ELSE b

Includes(s, sub) ==
    \E i \in 0..(Len(s) - Len(sub)) : SubSeq(s, i + 1, i + Len(sub)) = sub

\* "网络请求失败" = "网络" ++ "请求失败"
MSG_NETWORK_FAILED == <<"network", "request_failed">>
\* "请求超时"
MSG_TIMEOUT == <<"request_timeout">>
\* "请求失败"
MSG_REQUEST_FAILED == <<"request_failed">>
\* "响应解析失败"
MSG_PARSE_FAILED == <<"response_parse_failed">>
\* "请求被风控限制，请稍后重试"
MSG_RISK_CONTROL == <<"request_risk_controlled", "retry_later">>
\* "HTTP 错误: <status> <statusText>"
MSG_HTTP_ERROR == <<"http_error">>

\* message texts a server may put in the "message" field of its JSON body
ServerMessages ==
    { <<>>, <<"bad_request">>, <<"upstream">> \o MSG_TIMEOUT }

----------------------------------------------------------------------------
(* Values *)

Vmids == 1..NVmids
Callers == 1..NCallers
ReqIds == 1..NCallers
\* payloads a successful response may carry
NPayloads == 2
Payloads == 1..NPayloads
NoData == 0
\* "no pending promise" / "no request"
NoReq == 0
\* statusCode is undefined on errors that carry none
NoStatus == 0

NoError == [message |-> <<>>, statusCode |-> NoStatus]
NoEntry == [data |-> NoData, expiresIn |-> 0]

\* HTTP statuses the transport may deliver: 2xx, a 4xx other than 429
\* (412 is what the upstream sends with its risk-control body), 429, 5xx
HttpStatuses == {200, 412, 429, 503}

NoResponse ==
    [kind |-> "none", status |-> 0, parsed |-> FALSE, code |-> 0,
     message |-> <<>>, data |-> NoData]

Loaded(status, parsed, code, message, data) ==
    [kind |-> "load", status |-> status, parsed |-> parsed, code |-> code,
     message |-> message, data |-> data]

\* what GM_xmlhttpRequest may hand to one of its three callbacks
Responses ==
    { Loaded(200, TRUE, CODE_OK, <<>>, d) : d \in Payloads }
    \cup { Loaded(s, TRUE, CODE_RISK_CONTROL, <<>>, NoData) : s \in HttpStatuses }
    \cup { Loaded(200, TRUE, CODE_OTHER, m, NoData) : m \in ServerMessages }
    \cup { Loaded(s, TRUE, CODE_OTHER, <<>>, NoData) : s \in HttpStatuses \ {200} }
    \cup { Loaded(200, FALSE, 0, <<>>, NoData) }
    \cup { [NoResponse EXCEPT !.kind = "error"],
           [NoResponse EXCEPT !.kind = "timeout"] }

\* the responses drawn while several requests run concurrently: a success,
\* a retryable failure and a fatal failure
BatchResponses ==
    { Loaded(200, TRUE, CODE_OK, <<>>, 1),
      Loaded(200, TRUE, CODE_RISK_CONTROL, <<>>, NoData),
      Loaded(200, TRUE, CODE_OTHER, <<"bad_request">>, NoData) }

----------------------------------------------------------------------------
(* Retry policy and single request execution (pure) *)

\* Math.random() in thousandths: rnd stands for the value rnd / 1000
RandomDraws == { (k * 1000) \div RandomSteps : k \in 0..(RandomSteps - 1) }

\* a variant that forgets the cap at maxDelayMs
calculateBackoffDelayUncapped(attempt, config, rnd) ==
    LET exponentialDelay == config.baseDelayMs * Pow2(attempt)
        jitter == (rnd * 3 * exponentialDelay) \div 10000
    IN  exponentialDelay + jitter

calculateBackoffDelay(attempt, config, rnd) ==
    LET exponentialDelay == config.baseDelayMs * Pow2(attempt)
        jitter == (rnd * 3 * exponentialDelay) \div 10000
    IN  Min(exponentialDelay + jitter, config.maxDelayMs)

\* the synchronous part of waitForRateLimit: how long the caller sleeps
\* (0: it does not sleep), given now - lastRequestTime
\* a variant of the limiter that never waits
RateLimitDelayNone(timeSinceLastRequest) == 0

RateLimitDelay(timeSinceLastRequest) ==
    IF timeSinceLastRequest < MIN_REQUEST_INTERVAL_MS
    THEN MIN_REQUEST_INTERVAL_MS - timeSinceLastRequest
    ELSE 0

isRetryableError(error) ==
    IF error.statusCode # NoStatus
       /\ (error.statusCode = 429 \/ error.statusCode >= 500)
    THEN TRUE
    ELSE IF Includes(error.message, MSG_NETWORK_FAILED)
            \/ Includes(error.message, MSG_TIMEOUT)
         THEN TRUE
         ELSE FALSE

Resolve(data) == [ok |-> TRUE, data |-> data, error |-> NoError]
Reject(message, statusCode) ==
    [ok |-> FALSE, data |-> NoData,
     error |-> [message |-> message, statusCode |-> statusCode]]

\* the onload / onerror / ontimeout callbacks of executeRequest
executeRequest(resp) ==
    IF resp.kind = "error" THEN Reject(MSG_NETWORK_FAILED, NoStatus)
    ELSE IF resp.kind = "timeout" THEN Reject(MSG_TIMEOUT, NoStatus)
    ELSE IF resp.status < 200 \/ resp.status >= 300
         THEN Reject(MSG_HTTP_ERROR, resp.status)
    ELSE IF ~resp.parsed THEN Reject(MSG_PARSE_FAILED, NoStatus)
    ELSE IF resp.code = CODE_OK THEN Resolve(resp.data)
    ELSE IF resp.code = CODE_RISK_CONTROL THEN Reject(MSG_RISK_CONTROL, 429)
    ELSE Reject(IF resp.message # <<>> THEN resp.message
                ELSE MSG_REQUEST_FAILED, NoStatus)

----------------------------------------------------------------------------
(* State *)

VARIABLES
    sinceLast,        \* Date.now() - lastRequestTime, capped at the interval
    cache,            \* localStorage entries "bilibili_helper_common_followings_<vmid>"
    pending,          \* pendingRequests: vmid -> request promise
    req,              \* the request() calls made so far and their promises
    nreq,             \* how many request() calls were made
    caller,           \* the invocations of getCommonFollowings
    bo,               \* one stand-alone evaluation of calculateBackoffDelay
    cm,               \* cacheManager on its own: localStorage and the last operation
    loader,           \* loadAllData: its locals and the state it publishes
    agg,              \* the aggregation of the common followings
    gt,               \* useGraphTransform: its arguments, its result and its state
    comp              \* the incremental component: loadingState, isPaused, graphData

vars == <<sinceLast, cache, pending, req, nreq, caller, bo, cm, loader, agg, gt,
          comp>>


NoResult == [ok |-> FALSE, data |-> NoData, error |-> NoError]

\* a request() call that has not been made
NoRequest ==
    [key |-> 0, st |-> "unused", attempt |-> 0, wait |-> 0,
     attempts |-> 0, sleeps |-> 0, warns |-> 0, retryFails |-> 0,
     onlyRisk |-> TRUE, lastResp |-> NoResponse, lastRetryable |-> FALSE,
     stored |-> FALSE, result |-> NoResult]

NoCall ==
    [st |-> "idle", vmid |-> 0, useCache |-> TRUE, req |-> NoReq,
     fromCache |-> FALSE, result |-> NoResult]

NoBackoff == [attempt |-> 0, config |-> DEFAULT_RETRY_CONFIG, done |-> FALSE,
              delay |-> 0]

\* JavaScript values handed to cacheManager.set.  n tells the numbers and
\* the strings apart.
JsNull == [t |-> "null", n |-> 0]
JsUndefined == [t |-> "undefined", n |-> 0]
JsNaN == [t |-> "NaN", n |-> 0]
JsNumber(n) == [t |-> "number", n |-> n]
JsString(n) == [t |-> "string", n |-> n]
\* in a JSON text, a property that was left out
JsonOmitted == [t |-> "omitted", n |-> 0]

\* values that JSON can carry
SerializableValues == {JsNull, JsNumber(0), JsNumber(1), JsString(1)}
JsValues == SerializableValues \cup {JsUndefined, JsNaN}

\* JSON.stringify({ data, expiry }), as far as the property data goes: an
\* undefined property is left out, NaN is written as null
JsonStringify(v) ==
    IF v = JsUndefined THEN JsonOmitted
    ELSE IF v = JsNaN THEN JsNull
    ELSE v

\* JSON.parse(item).data: a property that is not there reads as undefined
JsonParse(j) == IF j = JsonOmitted THEN JsUndefined ELSE j

\* keys of localStorage: the prefix of the cache manager and the caller's key,
\* and a key that belongs to something else on the page
CachePrefix == "bilibili_helper_"
CacheKeys == {"k1", "k2"}
StorageKey(key) == <<CachePrefix, key>>
ForeignKey == <<"other_", "k1">>
StorageKeys == { StorageKey(k) : k \in CacheKeys } \cup {ForeignKey}

\* localStorage.getItem gives null
NoItem == [present |-> FALSE, data |-> JsonOmitted, expiresIn |-> 0]
\* the stored text of { data, expiry }; expiresIn = expiry - Date.now()
Item(data, expiresIn) ==
    [present |-> TRUE, data |-> JsonStringify(data), expiresIn |-> expiresIn]

\* no operation of the cache manager was made
NoCacheOp ==
    [op |-> "none", key |-> "k1", value |-> JsUndefined, written |-> FALSE,
     ret |-> JsUndefined, afterSet |-> FALSE, setValue |-> JsUndefined,
     found |-> "none"]

NoCacheManager ==
    [store |-> [k \in StorageKeys |->
                    IF k = ForeignKey THEN Item(JsString(1), 0) ELSE NoItem],
     last |-> NoCacheOp]

\* The two loaders: the hook useGraphData, which aggregates in batches, and
\* the incremental loader of the force graph, which aggregates one
\* identifier at a time.
Loaders == {"hook", "incremental"}

pageSize == 50
batchSize == 10
\* the pause between two batches of the hook
batchDelay == 300
\* the pauses of the incremental loader: after a page, after a result from the
\* cache, after a result from the network
pageDelay == 200
cachedDelay == 10
fetchedDelay == 300

\* loadAllData was not called
NoLoad ==
    [kind |-> "hook", pc |-> "idle", page |-> 0, total |-> 0, totalPages |-> 0,
     allFollowings |-> <<>>, requested |-> <<>>, skipped |-> <<>>,
     got |-> "none", identity |-> "unknown", paused |-> FALSE,
     navRequests |-> 0, errors |-> 0, loading |-> FALSE, dataLoaded |-> FALSE,
     followingsList |-> <<>>, resumed |-> 0]

\* no aggregation was started
NoAggregation ==
    [st |-> "idle", n |-> 0, i |-> 0, fetch |-> <<>>, map |-> <<>>,
     sleepMs |-> 0, published |-> FALSE]


\* ---- useGraphTransform: the values ----

\* the identifiers of followed users, and one of a user who is not followed
Mids == {1, 2, 3}
OutsideMid == 4

LINK_COLOR_BIDIRECTIONAL == "LINK_COLOR_BIDIRECTIONAL"

\* color: undefined
NoColor == "undefined"

\* commonFollowingsMap.get(mid) is undefined
NoList == [present |-> FALSE, list |-> <<>>]
List(l) == [present |-> TRUE, list |-> l]

\* graphData is null
NullGraph == [isNull |-> TRUE, nodes |-> <<>>, links |-> <<>>]

\* the hook before any data: empty arguments, the initial stats and degrees
NoGraph ==
    [followingsList |-> <<>>,
     commonFollowingsMap |-> [m \in Mids |-> NoList],
     swapLinkDirection |-> FALSE,
     dataLoaded |-> FALSE,
     graphData |-> NullGraph,
     nodeDegreeMap |-> <<>>,
     stats |-> [total |-> 0, connected |-> 0, links |-> 0]]

\* how many times loadAllData of the incremental component is followed
MaxRuns == 3

\* the incremental component when it is mounted: status "idle", not paused,
\* an empty graph, no loadAllData called yet
NoComponent ==
    [status |-> "idle",
     isPaused |-> FALSE,
     runs |-> [k \in 1..MaxRuns |-> "none"],
     nodes |-> <<>>,
     links |-> <<>>,
     stats |-> [nodeCount |-> 0, linkCount |-> 0]]

Init ==
    /\ sinceLast = MIN_REQUEST_INTERVAL_MS
    /\ cache = [v \in Vmids |-> NoEntry]
    /\ pending = [v \in Vmids |-> NoReq]
    /\ req = [r \in ReqIds |-> NoRequest]
    /\ nreq = 0
    /\ caller = [c \in Callers |-> NoCall]
    /\ bo = NoBackoff
    /\ cm = NoCacheManager
    /\ gt = NoGraph
    /\ comp = NoComponent
    /\ loader = NoLoad
    /\ agg = NoAggregation

----------------------------------------------------------------------------
(* cacheManager *)

\* an entry holds expiresIn = expiry - Date.now(); Date.now() > expiry
Expired(entry) == entry.expiresIn < 0

\* cacheManager.get: the value returned (NoData stands for null)
CacheGet(store, key) ==
    IF store[key] = NoEntry THEN NoData
    ELSE IF Expired(store[key]) THEN NoData
    ELSE store[key].data

\* cacheManager.get: the store it leaves (an expired entry is removed)
CacheAfterGet(store, key) ==
    IF store[key] # NoEntry /\ Expired(store[key])
    THEN [store EXCEPT ![key] = NoEntry]
    ELSE store

\* the error localStorage.setItem throws when the write fails
MSG_QUOTA_EXCEEDED == <<"quota_exceeded">>

\* a variant of set without the catch: the error of setItem leaves set
CacheSetRethrows(written) == ~written

\* cacheManager.set: does the call throw?  The catch around setItem logs the
\* error and lets set return
CacheSetThrows(written) == FALSE

\* a variant of set that stores nothing
CacheSetNothing(store, key, data, written) == store

\* cacheManager.set; written = FALSE: localStorage.setItem threw and the
\* error was logged and swallowed
CacheSet(store, key, data, written) ==
    IF written
    THEN [store EXCEPT ![key] = [data |-> data, expiresIn |-> CacheTtlMs]]
    ELSE store

\* The class on its own, over localStorage.

\* Date.now() > cacheItem.expiry
ItemExpired(item) == item.expiresIn < 0

\* cacheManager.set: written = FALSE when localStorage.setItem throws; the
\* catch logs the error and set returns normally
CacheManagerSet(store, key, data, written) ==
    IF written
    THEN [store EXCEPT ![StorageKey(key)] = Item(data, CacheTtlMs)]
    ELSE store

\* what get finds under the key
CacheManagerFound(store, key) ==
    IF ~store[StorageKey(key)].present THEN "absent"
    ELSE IF ItemExpired(store[StorageKey(key)]) THEN "expired"
    ELSE "live"

\* a variant that takes a falsy value for a missing one
CacheManagerGetFalsy(store, key) ==
    LET item == store[StorageKey(key)]
    IN  IF ~item.present THEN JsNull
        ELSE IF ItemExpired(item) THEN JsNull
        ELSE IF JsonParse(item.data) \in {JsNumber(0), JsUndefined} THEN JsNull
        ELSE JsonParse(item.data)

\* cacheManager.get: the value returned
CacheManagerGet(store, key) ==
    LET item == store[StorageKey(key)]
    IN  IF ~item.present THEN JsNull
        ELSE IF ItemExpired(item) THEN JsNull
        ELSE JsonParse(item.data)

\* cacheManager.remove
CacheManagerRemove(store, key) == [store EXCEPT ![StorageKey(key)] = NoItem]

\* a variant of get that leaves an expired item where it is
CacheManagerAfterGetKeeps(store, key) == store

\* cacheManager.get: the store it leaves
CacheManagerAfterGet(store, key) ==
    IF store[StorageKey(key)].present /\ ItemExpired(store[StorageKey(key)])
    THEN CacheManagerRemove(store, key)
    ELSE store

\* cacheManager.clear: every key that starts with the prefix
CacheManagerClear(store) ==
    [k \in StorageKeys |-> IF k[1] = CachePrefix THEN NoItem ELSE store[k]]

----------------------------------------------------------------------------
(* request(): the retry loop *)

\* one pass through waitForRateLimit at the top of the loop body: the request
\* either parks on the limiter's timer or is granted at once and issues its
\* network call
BeginAttempt(q, timeSinceLastRequest) ==
    IF RateLimitDelay(timeSinceLastRequest) > 0
    THEN [q EXCEPT !.st = "ratewait",
                   !.wait = RateLimitDelay(timeSinceLastRequest)]
    ELSE [q EXCEPT !.st = "inflight", !.wait = 0, !.attempts = @ + 1]

Granted(q) == q.st = "inflight"

\* the limiter after BeginAttempt produced q: a grant sets lastRequestTime
\* to Date.now()
LimiterAfter(q) == sinceLast' = IF Granted(q) THEN 0 ELSE sinceLast

\* a variant that forgets the test of the retry budget
ShouldThrowUnbounded(error, attempt, config) == ~isRetryableError(error)

\* the catch block of request(): rethrow, or warn and sleep
ShouldThrow(error, attempt, config) ==
    ~isRetryableError(error) \/ attempt = config.maxRetries

\* a variant that retries at once, without the backoff sleep
AfterAttemptNoSleep(q, resp, rnd, config) ==
    LET res == executeRequest(resp)
        q1 == [q EXCEPT !.lastResp = resp]
    IN  IF res.ok
        THEN [q1 EXCEPT !.st = "resolved", !.result = res]
        ELSE LET q2 == [q1 EXCEPT !.result = res,
                           !.lastRetryable = isRetryableError(res.error),
                           !.retryFails = IF isRetryableError(res.error)
                                          THEN @ + 1 ELSE @,
                           !.onlyRisk = @ /\ res.error.message = MSG_RISK_CONTROL]
             IN  IF ShouldThrow(res.error, q.attempt, config)
                 THEN [q2 EXCEPT !.st = "rejected"]
                 ELSE [q2 EXCEPT !.st = "backoff", !.warns = @ + 1, !.wait = 0]

\* the request after its network call came back with resp
AfterAttempt(q, resp, rnd, config) ==
    LET res == executeRequest(resp)
        q1 == [q EXCEPT !.lastResp = resp]
    IN  IF res.ok
        THEN [q1 EXCEPT !.st = "resolved", !.result = res]
        ELSE LET q2 == [q1 EXCEPT !.result = res,
                           !.lastRetryable = isRetryableError(res.error),
                           !.retryFails = IF isRetryableError(res.error)
                                          THEN @ + 1 ELSE @,
                           !.onlyRisk = @ /\ res.error.message = MSG_RISK_CONTROL]
             IN  IF ShouldThrow(res.error, q.attempt, config)
                 THEN [q2 EXCEPT !.st = "rejected"]
                 ELSE [q2 EXCEPT !.st = "backoff",
                           !.warns = @ + 1,
                           !.sleeps = @ + 1,
                           !.wait = calculateBackoffDelay(q.attempt, config, rnd)]

----------------------------------------------------------------------------
(* getCommonFollowings *)

Settled(q) == q.st \in {"fulfilled", "failed"}

\* a variant without the look-up in pendingRequests
getCommonFollowingsPathNoDedup(store, pend, vmid, useCache) ==
    IF useCache /\ CacheGet(store, vmid) # NoData THEN "hit" ELSE "fetch"

\* a variant that does not look into the cache
getCommonFollowingsPathNoCache(store, pend, vmid, useCache) ==
    IF pend[vmid] # NoReq THEN "join" ELSE "fetch"

\* which way a call of getCommonFollowings goes: served from the cache,
\* joined to the pending promise of its key, or a fresh request
getCommonFollowingsPath(store, pend, vmid, useCache) ==
    IF useCache /\ CacheGet(store, vmid) # NoData THEN "hit"
    ELSE IF pend[vmid] # NoReq THEN "join"
    ELSE "fetch"

\* the cache after the lookup at the top of getCommonFollowings
CacheAfterLookup(store, vmid, useCache) ==
    IF useCache THEN CacheAfterGet(store, vmid) ELSE store

\* a variant that looks the promise up under a key that is not the caller's
JoinedPromiseAnyKey(pend, vmid) ==
    pend[CHOOSE v \in Vmids : pend[v] # NoReq /\ \A u \in Vmids : pend[u] # NoReq => v <= u]

\* the promise a joining call returns: pendingRequests.get(pendingKey)
JoinedPromise(pend, vmid) == pend[vmid]

\* a variant that deletes the entry after the success path only
PendingAfterSettleOnSuccess(pend, vmid, ok) ==
    IF ok THEN [pend EXCEPT ![vmid] = NoReq] ELSE pend

\* the finally block of the request promise
PendingAfterSettle(pend, vmid, ok) == [pend EXCEPT ![vmid] = NoReq]

\* the settled request promise: the locals of request() are gone, the
\* promise keeps its key and its outcome
PromiseOf(q) ==
    [NoRequest EXCEPT !.key = q.key,
                      !.st = IF q.st = "resolved" THEN "fulfilled" ELSE "failed",
                      !.retryFails = q.retryFails,
                      !.result = q.result]

\* promise continuations are microtasks: once a network callback has settled
\* request(), the continuation of the request promise and then the
\* continuations of the callers awaiting it run before any timer callback,
\* network callback or new call
Quiescent ==
    /\ \A r \in ReqIds : req[r].st \notin {"resolved", "rejected"}
    /\ \A c \in Callers : caller[c].st = "waiting" => ~Settled(req[caller[c].req])

\* callers make their calls in index order (they are interchangeable)
MayCall(c) ==
    /\ Quiescent
    /\ caller[c].st = "idle"
    /\ \A d \in Callers : d < c => caller[d].st # "idle"

\* a call that finds an unexpired cache entry
CallCacheHit(c, v, uc) ==
    /\ MayCall(c)
    /\ getCommonFollowingsPath(cache, pending, v, uc) = "hit"
    /\ caller' = [caller EXCEPT ![c] =
            [st |-> "done", vmid |-> v, useCache |-> uc, req |-> NoReq,
             fromCache |-> TRUE, result |-> Resolve(CacheGet(cache, v))]]
    /\ cache' = CacheAfterLookup(cache, v, uc)
    /\ UNCHANGED <<comp, gt, sinceLast, pending, req, nreq, bo, cm, loader, agg>>

\* a call that finds a pending promise for its key and returns it
CallJoin(c, v, uc) ==
    /\ MayCall(c)
    /\ getCommonFollowingsPath(cache, pending, v, uc) = "join"
    /\ caller' = [caller EXCEPT ![c] =
            [st |-> "waiting", vmid |-> v, useCache |-> uc,
             req |-> JoinedPromise(pending, v),
             fromCache |-> FALSE, result |-> NoResult]]
    /\ cache' = CacheAfterLookup(cache, v, uc)
    /\ UNCHANGED <<comp, gt, sinceLast, pending, req, nreq, bo, cm, loader, agg>>

\* a call that starts request(), up to its first suspension, and registers
\* the promise
CallFetch(c, v, uc) ==
    /\ MayCall(c)
    /\ getCommonFollowingsPath(cache, pending, v, uc) = "fetch"
    /\ nreq < NCallers
    /\ LET r == nreq + 1
           q == BeginAttempt([NoRequest EXCEPT !.key = v], sinceLast)
       IN  /\ req' = [req EXCEPT ![r] = q]
           /\ LimiterAfter(q)
           /\ pending' = [pending EXCEPT ![v] = r]
           /\ caller' = [caller EXCEPT ![c] =
                   [st |-> "waiting", vmid |-> v, useCache |-> uc, req |-> r,
                    fromCache |-> FALSE, result |-> NoResult]]
    /\ nreq' = nreq + 1
    /\ cache' = CacheAfterLookup(cache, v, uc)
    /\ UNCHANGED <<comp, gt, bo, cm, loader, agg>>

\* the timer of waitForRateLimit fires: lastRequestTime = Date.now(), and the
\* network call is issued
RateLimitWake(r) ==
    /\ Quiescent
    /\ req[r].st = "ratewait"
    /\ req[r].wait = 0
    /\ req' = [req EXCEPT ![r] =
            [@ EXCEPT !.st = "inflight", !.attempts = @ + 1]]
    /\ sinceLast' = 0
    /\ UNCHANGED <<comp, gt, cache, pending, nreq, caller, bo, cm, loader, agg>>

\* the network call of request r comes back; request() returns, throws, or
\* warns and parks on the backoff timer
NetworkSettles(r, resp, rnd) ==
    /\ Quiescent
    /\ req[r].st = "inflight"
    /\ req' = [req EXCEPT ![r] =
            AfterAttempt(@, resp, rnd, DEFAULT_RETRY_CONFIG)]
    /\ UNCHANGED <<comp, gt, sinceLast, cache, pending, nreq, caller, bo, cm, loader, agg>>

\* the backoff timer fires: attempt++, and either the next pass of the loop
\* begins or the loop ends and lastError is thrown
NextPass(q, timeSinceLastRequest, config) ==
    IF q.attempt + 1 <= config.maxRetries
    THEN BeginAttempt([q EXCEPT !.attempt = @ + 1], timeSinceLastRequest)
    ELSE [q EXCEPT !.attempt = @ + 1, !.st = "rejected"]

BackoffWake(r) ==
    /\ Quiescent
    /\ req[r].st = "backoff"
    /\ req[r].wait = 0
    /\ LET q == NextPass(req[r], sinceLast, DEFAULT_RETRY_CONFIG)
       IN  /\ req' = [req EXCEPT ![r] = q]
           /\ LimiterAfter(q)
    /\ UNCHANGED <<comp, gt, cache, pending, nreq, caller, bo, cm, loader, agg>>

\* the continuation of the request promise after `await request(...)`:
\* on success the response is cached; in every case the pending entry is
\* deleted and the promise settles
FetchSettles(r, written) ==
    /\ req[r].st \in {"resolved", "rejected"}
    /\ cache' = IF req[r].st = "resolved"
                THEN CacheSet(cache, req[r].key, req[r].result.data, written)
                ELSE cache
    /\ pending' = PendingAfterSettle(pending, req[r].key, req[r].st = "resolved")
    /\ req' = [req EXCEPT ![r] =
            IF req[r].st = "resolved" /\ CacheSetThrows(written)
            THEN PromiseOf([@ EXCEPT !.st = "rejected",
                                     !.result = Reject(MSG_QUOTA_EXCEEDED, NoStatus)])
            ELSE [PromiseOf(@) EXCEPT
                     !.stored = req[r].st = "resolved" /\ written]]
    /\ UNCHANGED <<comp, gt, sinceLast, nreq, caller, bo, cm, loader, agg>>

\* the outcome of a settled promise reaches a caller awaiting it; the
\* continuations run in the order in which the callers began to wait
Receive(c) ==
    /\ \A r \in ReqIds : req[r].st \notin {"resolved", "rejected"}
    /\ caller[c].st = "waiting"
    /\ Settled(req[caller[c].req])
    /\ \A d \in Callers :
          d < c /\ caller[d].st = "waiting" => ~Settled(req[caller[d].req])
    /\ caller' = [caller EXCEPT ![c] =
            [@ EXCEPT !.st = "done", !.result = req[caller[c].req].result]]
    /\ UNCHANGED <<comp, gt, sinceLast, cache, pending, req, nreq, bo, cm, loader, agg>>

----------------------------------------------------------------------------
(* The clock *)

Sleeping(q) == q.st \in {"ratewait", "backoff"}

Timers == { req[r].wait : r \in { x \in ReqIds : Sleeping(req[x]) /\ req[x].wait > 0 } }

Max(a, b) == IF a >= b THEN a ELSE b

\* d milliseconds pass, d being short: a step of the limiter's interval or
\* the rest of a timer of the request loop (at most maxDelayMs).  An entry of
\* the cache lives CacheTtlMs, some thousand times longer; the model ages the
\* entries across the long waits only (LongWait).  A timer that is due fires
\* before more time passes.
Advance(d) ==
    /\ Quiescent
    /\ \A r \in ReqIds : Sleeping(req[r]) => req[r].wait > 0
    /\ sinceLast' = Min(sinceLast + d, MIN_REQUEST_INTERVAL_MS)
    /\ req' = [r \in ReqIds |->
                 IF Sleeping(req[r])
                 THEN [req[r] EXCEPT !.wait = Max(@ - d, 0)]
                 ELSE req[r]]
    /\ UNCHANGED <<comp, gt, cache, pending, nreq, caller, bo, cm, loader, agg>>

\* no request() call is under way
Idle == \A r \in ReqIds : req[r].st = "unused" \/ Settled(req[r])

\* more than the lifetime of a cache entry passes while nothing is under way
LongWait ==
    /\ Quiescent
    /\ Idle
    /\ \E v \in Vmids : cache[v] # NoEntry /\ ~Expired(cache[v])
    /\ sinceLast' = MIN_REQUEST_INTERVAL_MS
    /\ cache' = [v \in Vmids |->
                   IF cache[v] = NoEntry THEN NoEntry
                   ELSE [cache[v] EXCEPT
                            !.expiresIn = Max(@ - (CacheTtlMs + 1), 0 - 1)]]
    /\ UNCHANGED <<comp, gt, req, pending, nreq, caller, bo, cm, loader, agg>>

\* a small step of the clock, while the limiter's interval is running and a
\* call may still be made in it
Tick ==
    /\ sinceLast < MIN_REQUEST_INTERVAL_MS
    /\ \E c \in Callers : caller[c].st = "idle"
    /\ Advance(TickMs)

\* time passes until the earliest timer is due
Jump ==
    /\ Timers # {}
    /\ Advance(CHOOSE t \in Timers : \A u \in Timers : t <= u)

RECURSIVE SumRetryFails(_)
SumRetryFails(n) == IF n = 0 THEN 0 ELSE req[n].retryFails + SumRetryFails(n - 1)

\* the upstream may still answer resp
WithinFaults(resp) ==
    \/ executeRequest(resp).ok
    \/ ~isRetryableError(executeRequest(resp).error)
    \/ SumRetryFails(NCallers) < MaxFaults

\* Concurrent use, as in loadCommonFollowingsBatch: calls overlap freely, each
\* with the default useCache = true.
Next ==
    \/ \E c \in Callers, v \in Vmids : CallCacheHit(c, v, TRUE)
    \/ \E c \in Callers, v \in Vmids : CallJoin(c, v, TRUE)
    \/ \E c \in Callers, v \in Vmids : CallFetch(c, v, TRUE)
    \/ \E r \in ReqIds : RateLimitWake(r)
    \/ \E r \in ReqIds, resp \in BatchResponses, rnd \in RandomDraws :
            WithinFaults(resp) /\ NetworkSettles(r, resp, rnd)
    \/ \E r \in ReqIds : BackoffWake(r)
    \/ \E r \in ReqIds, written \in BOOLEAN : FetchSettles(r, written)
    \/ \E c \in Callers : Receive(c)
    \/ Tick
    \/ Jump
    \/ LongWait

Spec == Init /\ [][Next]_vars

\* Sequential use, as in the page walk and the incremental loader: a call is
\* made only after the previous one has returned.  The upstream answers with
\* any response.
Sequential == \A c \in Callers : caller[c].st \in {"idle", "done"}

NextSeq ==
    \/ \E c \in 1..NSeqCallers, v \in Vmids, uc \in BOOLEAN :
            Sequential /\ CallCacheHit(c, v, uc)
    \/ \E c \in 1..NSeqCallers, v \in Vmids, uc \in BOOLEAN :
            Sequential /\ CallFetch(c, v, uc)
    \/ \E r \in ReqIds : RateLimitWake(r)
    \/ \E r \in ReqIds, resp \in Responses, rnd \in RandomDraws :
            NetworkSettles(r, resp, rnd)
    \/ \E r \in ReqIds : BackoffWake(r)
    \/ \E r \in ReqIds, written \in BOOLEAN : FetchSettles(r, written)
    \/ \E c \in Callers : Receive(c)
    \/ Sequential /\ (\E c \in 1..NSeqCallers : caller[c].st = "idle") /\ Tick
    \/ Jump
    \/ LongWait

SpecSeq == Init /\ [][NextSeq]_vars

\* the steps the event loop takes by itself: GM_xmlhttpRequest is given a
\* timeout, so one of its callbacks is called; a timer that is due fires; a
\* promise continuation that is ready runs
Progress ==
    \/ \E r \in ReqIds, resp \in Responses, rnd \in RandomDraws :
            NetworkSettles(r, resp, rnd)
    \/ \E r \in ReqIds : RateLimitWake(r)
    \/ \E r \in ReqIds : BackoffWake(r)
    \/ \E r \in ReqIds, written \in BOOLEAN : FetchSettles(r, written)
    \/ \E c \in Callers : Receive(c)
    \/ Jump

Fairness == WF_vars(Progress)

\* the sequential loader calls getCommonFollowings(uid) with the default
\* useCache = true
NextLive ==
    \/ \E c \in 1..NSeqCallers, v \in Vmids, uc \in {TRUE} :
            Sequential /\ CallCacheHit(c, v, uc)
    \/ \E c \in 1..NSeqCallers, v \in Vmids, uc \in {TRUE} :
            Sequential /\ CallFetch(c, v, uc)
    \/ \E r \in ReqIds : RateLimitWake(r)
    \/ \E r \in ReqIds, resp \in Responses, rnd \in RandomDraws :
            NetworkSettles(r, resp, rnd)
    \/ \E r \in ReqIds : BackoffWake(r)
    \/ \E r \in ReqIds, written \in BOOLEAN : FetchSettles(r, written)
    \/ \E c \in Callers : Receive(c)
    \/ Sequential /\ (\E c \in 1..NSeqCallers : caller[c].st = "idle") /\ Tick
    \/ Jump
    \/ LongWait


SpecSeqLive == Init /\ [][NextLive]_vars /\ Fairness

----------------------------------------------------------------------------
(* calculateBackoffDelay on its own: one evaluation for an attempt index and *)
(* a retry configuration, over several draws of Math.random()                *)

RetryConfigs ==
    { [maxRetries |-> 3, baseDelayMs |-> b, maxDelayMs |-> m] :
        b \in {100, 500, 1000}, m \in {1000, 2000, 10000} }

BackoffDraws == {0, 500, 999}

InitBackoff ==
    /\ sinceLast = MIN_REQUEST_INTERVAL_MS
    /\ cache = [v \in Vmids |-> NoEntry]
    /\ pending = [v \in Vmids |-> NoReq]
    /\ req = [r \in ReqIds |-> NoRequest]
    /\ nreq = 0
    /\ caller = [c \in Callers |-> NoCall]
    /\ \E n \in 0..MaxAttemptIdx, c \in RetryConfigs :
          bo = [attempt |-> n, config |-> c, done |-> FALSE, delay |-> 0]
    /\ cm = NoCacheManager
    /\ gt = NoGraph
    /\ comp = NoComponent
    /\ loader = NoLoad
    /\ agg = NoAggregation

ComputeBackoff(rnd) ==
    /\ ~bo.done
    /\ bo' = [bo EXCEPT !.done = TRUE,
                        !.delay = calculateBackoffDelay(bo.attempt, bo.config, rnd)]
    /\ UNCHANGED <<comp, gt, sinceLast, cache, pending, req, nreq, caller, cm, loader, agg>>

NextBackoff == \E rnd \in BackoffDraws : ComputeBackoff(rnd)

SpecBackoff == InitBackoff /\ [][NextBackoff]_vars

----------------------------------------------------------------------------
(* cacheManager on its own: any sequence of set, get, remove and clear, and  *)
(* the clock                                                                *)

SetOp(k, v, written) ==
    /\ cm' = [store |-> CacheManagerSet(cm.store, k, v, written),
              last |-> [NoCacheOp EXCEPT !.op = "set", !.key = k, !.value = v,
                                         !.written = written]]
    /\ UNCHANGED <<comp, gt, sinceLast, cache, pending, req, nreq, caller, bo, loader, agg>>

GetOp(k) ==
    /\ cm' = [store |-> CacheManagerAfterGet(cm.store, k),
              last |-> [NoCacheOp EXCEPT
                  !.op = "get", !.key = k,
                  !.ret = CacheManagerGet(cm.store, k),
                  !.afterSet = (cm.last.op = "set" /\ cm.last.written
                                /\ cm.last.key = k),
                  !.setValue = IF cm.last.op = "set" THEN cm.last.value
                               ELSE JsUndefined,
                  !.found = CacheManagerFound(cm.store, k)]]
    /\ UNCHANGED <<comp, gt, sinceLast, cache, pending, req, nreq, caller, bo, loader, agg>>

RemoveOp(k) ==
    /\ cm' = [store |-> CacheManagerRemove(cm.store, k),
              last |-> [NoCacheOp EXCEPT !.op = "remove", !.key = k]]
    /\ UNCHANGED <<comp, gt, sinceLast, cache, pending, req, nreq, caller, bo, loader, agg>>

ClearOp ==
    /\ cm' = [store |-> CacheManagerClear(cm.store),
              last |-> [NoCacheOp EXCEPT !.op = "clear"]]
    /\ UNCHANGED <<comp, gt, sinceLast, cache, pending, req, nreq, caller, bo, loader, agg>>

\* d milliseconds pass; an item that has expired stays expired
CacheClock(d) ==
    /\ \E k \in StorageKeys : cm.store[k].present /\ cm.store[k].expiresIn >= 0
                              /\ k # ForeignKey
    /\ cm' = [store |-> [k \in StorageKeys |->
                  IF cm.store[k].present /\ k # ForeignKey
                  THEN [cm.store[k] EXCEPT
                            !.expiresIn = Max(@ - d, 0 - 1)]
                  ELSE cm.store[k]],
              last |-> [NoCacheOp EXCEPT !.op = "wait"]]
    /\ UNCHANGED <<comp, gt, sinceLast, cache, pending, req, nreq, caller, bo, loader, agg>>

\* the steps of the clock: half the lifetime of an item, and a millisecond more
ClockSteps == { CacheTtlMs \div 2, (CacheTtlMs \div 2) + 1 }

NextCache ==
    \/ \E k \in CacheKeys, v \in JsValues, written \in BOOLEAN : SetOp(k, v, written)
    \/ \E k \in CacheKeys : GetOp(k)
    \/ \E k \in CacheKeys : RemoveOp(k)
    \/ ClearOp
    \/ \E d \in ClockSteps : CacheClock(d)

SpecCache == Init /\ [][NextCache]_vars

----------------------------------------------------------------------------
(* loadAllData: identity, the walk over the pages of the follow list, and   *)
(* the aggregation of the common followings.  A follow list is kept as the  *)
(* sequence of the page lists it was built from, each with its page number  *)
(* and its length; the identifiers aggregated are the positions 1..n of the *)
(* concatenation.                                                           *)

\* what a getFollowingsList call may come back with: a response with
\* data.total and data.list, a response without a usable data.list, or a
\* rejection (request() threw)
PageOk(total, len) == [kind |-> "ok", total |-> total, len |-> len]
PageMalformed == [kind |-> "malformed", total |-> 0, len |-> 0]
PageFailed == [kind |-> "failed", total |-> 0, len |-> 0]

\* Math.ceil(total / pageSize)
TotalPages(total) == (total + pageSize - 1) \div pageSize

\* the length of page pn of a follow list of `total` entries, served in full
FullLen(total, pn) ==
    IF pn * pageSize <= total THEN pageSize
    ELSE IF (pn - 1) * pageSize < total THEN total - (pn - 1) * pageSize
    ELSE 0

RECURSIVE SumLen(_)
SumLen(lists) ==
    IF lists = <<>> THEN 0 ELSE Head(lists).len + SumLen(Tail(lists))

\* the identifiers of the unit of aggregation that starts after index i: a
\* batch of the hook (mids.slice(i, i + batchSize)), one identifier of the
\* incremental loader
UnitSize(kind) == IF kind = "hook" THEN batchSize ELSE 1
UnitIds(a, kind) == (a.i + 1)..Min(a.i + UnitSize(kind), a.n)

\* which calls of a unit are served from the cache
HitChoices == {"none", "first", "all"}
Hits(h, ids) ==
    IF h = "all" THEN ids
    ELSE IF h = "first" THEN { id \in ids : \A o \in ids : id <= o }
    ELSE {}

\* every call of the unit has settled.  The hook pauses batchDelay when more
\* batches remain and publishes the map after the last one; the incremental
\* loader pauses after a result (shorter after a cached one) and goes on at
\* once after a failure
AfterUnit(a, kind) ==
    IF kind = "hook"
    THEN IF a.i + batchSize < a.n
         THEN [a EXCEPT !.st = "sleep", !.sleepMs = batchDelay]
         ELSE [a EXCEPT !.st = "done", !.published = TRUE]
    ELSE IF a.fetch[a.i + 1] = "fail"
         THEN [a EXCEPT !.st = "continue"]
         ELSE [a EXCEPT !.st = "sleep",
                        !.sleepMs = IF a.fetch[a.i + 1] = "cached"
                                    THEN cachedDelay ELSE fetchedDelay]

\* a variant that starts the whole rest of the list at once
StartUnitAll(a, kind, h) ==
    LET ids == (a.i + 1)..a.n
        hit == Hits(h, ids)
        a1 == [a EXCEPT
                !.st = "unit",
                !.fetch = [id \in 1..a.n |->
                             IF id \in ids
                             THEN IF id \in hit THEN "cached" ELSE "inflight"
                             ELSE a.fetch[id]],
                !.map = [id \in 1..a.n |->
                             IF id \in hit THEN "list" ELSE a.map[id]]]
    IN  IF \A id \in ids : a1.fetch[id] # "inflight"
        THEN AfterUnit(a1, kind)
        ELSE a1

\* the calls of the unit after index a.i are made; those served from the
\* cache settle before anything else runs
StartUnit(a, kind, h) ==
    LET ids == UnitIds(a, kind)
        hit == Hits(h, ids)
        a1 == [a EXCEPT
                !.st = "unit",
                !.fetch = [id \in 1..a.n |->
                             IF id \in ids
                             THEN IF id \in hit THEN "cached" ELSE "inflight"
                             ELSE a.fetch[id]],
                !.map = [id \in 1..a.n |->
                             IF id \in hit THEN "list" ELSE a.map[id]]]
    IN  IF \A id \in ids : a1.fetch[id] # "inflight"
        THEN AfterUnit(a1, kind)
        ELSE a1

\* the step of the loop over the identifiers: the next unit, or the end
Continue(a, kind, h) ==
    IF a.i + UnitSize(kind) < a.n
    THEN StartUnit([a EXCEPT !.i = @ + UnitSize(kind)], kind, h)
    ELSE [a EXCEPT !.st = "done", !.published = TRUE]

Resume(a, kind, h) ==
    IF a.st = "continue" THEN Continue(a, kind, h) ELSE a

\* the aggregation over n identifiers before its first call
NewAggregation(n) ==
    [NoAggregation EXCEPT !.n = n,
                          !.fetch = [id \in 1..n |-> "none"],
                          !.map = [id \in 1..n |-> "unset"]]

\* the aggregation is called with the identifiers of the follow list
BeginAggregation(lists, kind, h) ==
    LET n == SumLen(lists)
        a0 == NewAggregation(n)
    IN  IF n = 0
        THEN [a0 EXCEPT !.st = "done", !.published = TRUE]
        ELSE Resume(StartUnit(a0, kind, h), kind, h)

\* getFollowingsList is called for page pn
RequestPage(l, pn) ==
    [l EXCEPT !.pc = "page", !.page = pn, !.requested = Append(@, pn)]

\* a variant whose finally block leaves the loading flag set
FailLoadBusy(l) ==
    [l EXCEPT !.pc = "failed", !.errors = @ + 1]

\* the catch of loadAllData: one message.error; the hook's finally block
\* clears the loading flag, the incremental loader sets the status "error"
FailLoad(l) ==
    [l EXCEPT !.pc = "failed", !.errors = @ + 1, !.loading = FALSE]

\* a variant of the loop over the pages that stops one page early
WalkStepShort(l) ==
    IF l.page + 1 < l.totalPages
    THEN RequestPage(l, l.page + 1)
    ELSE [l EXCEPT !.pc = "aggregating"]

\* a variant of the incremental loader that never looks at the pause flag
PauseGateNever(l) == FALSE

\* if (isPausedRef.current) await waitForResume(): at the top of both loops
\* of the incremental loader; the hook has no pause
PauseGate(l) == l.kind = "incremental" /\ l.paused

\* for (page = 2; page <= totalPages; page++): after page l.page, the next
\* page is requested (after the pause, if one is set) or the walk is over
WalkStep(l) ==
    IF l.page + 1 <= l.totalPages
    THEN IF PauseGate(l)
         THEN [l EXCEPT !.pc = "waitresume"]
         ELSE RequestPage(l, l.page + 1)
    ELSE [l EXCEPT !.pc = "aggregating"]

\* does the loader test response.data?.list before it uses it?  The hook
\* does from page 2 on; the first page, and every page of the incremental
\* loader, is used as it comes
ValidatesPage(kind, pn) == kind = "hook" /\ pn >= 2

\* the page that was awaited has come back
AfterPage(l, resp) ==
    IF resp.kind = "failed" THEN FailLoad([l EXCEPT !.got = resp.kind])
    ELSE IF resp.kind = "malformed"
    THEN IF ValidatesPage(l.kind, l.page)
         THEN WalkStep([l EXCEPT !.got = resp.kind,
                                 !.skipped = Append(@, l.page)])
         ELSE FailLoad([l EXCEPT !.got = resp.kind])
    ELSE LET l1 == [l EXCEPT
                      !.got = resp.kind,
                      !.allFollowings =
                          Append(@, [pn |-> l.page, len |-> resp.len]),
                      !.total = IF l.page = 1 THEN resp.total ELSE @,
                      !.totalPages = IF l.page = 1
                                     THEN TotalPages(resp.total) ELSE @]
         IN  IF l.kind = "incremental" /\ l.page >= 2
             THEN [l1 EXCEPT !.pc = "pagesleep"]
             ELSE WalkStep(l1)

\* a variant that reports the data as loaded when the first unit has been
\* started
LoaderAfterEarly(l, a) ==
    IF a.st # "idle"
    THEN [l EXCEPT !.pc = "done", !.dataLoaded = TRUE, !.loading = FALSE]
    ELSE l

\* loadAllData after the aggregation has returned: setDataLoaded(true) and
\* the finally block (the status "done" of the incremental loader)
LoaderAfter(l, a) ==
    IF a.st = "done"
    THEN [l EXCEPT !.pc = "done", !.dataLoaded = TRUE, !.loading = FALSE]
    ELSE l

\* the loader after a step of the walk: when the walk is over the aggregation
\* starts in the same step
Proceed(l, h) ==
    IF l.pc = "aggregating"
    THEN LET a == IF PauseGate(l) /\ SumLen(l.allFollowings) > 0
                  THEN [NewAggregation(SumLen(l.allFollowings))
                           EXCEPT !.st = "waitresume"]
                  ELSE BeginAggregation(l.allFollowings, l.kind, h)
         IN  /\ agg' = a
             /\ loader' = LoaderAfter(
                             [l EXCEPT !.followingsList = l.allFollowings], a)
    ELSE /\ loader' = l
         /\ agg' = agg

\* a variant of the hook that goes on without an identity
NeedsIdentityNever(kind, resolved) == FALSE

\* if (!vmid) / if (!myMid)
NeedsIdentity(kind, resolved) == ~resolved

\* loadAllData is called; resolved: getCurrentUserMid() found an identifier
LoadStart(kind, resolved) ==
    /\ loader.pc = "idle"
    /\ LET l == [NoLoad EXCEPT
                    !.kind = kind, !.loading = TRUE,
                    !.identity = IF resolved THEN "resolved"
                                 ELSE IF kind = "hook" THEN "unresolved"
                                 ELSE "unknown"]
       IN  loader' =
             IF NeedsIdentity(kind, resolved)
             THEN IF kind = "hook"
                  THEN FailLoad(l)
                  ELSE [l EXCEPT !.pc = "nav", !.navRequests = @ + 1]
             ELSE RequestPage(l, 1)
    /\ UNCHANGED <<comp, gt, sinceLast, cache, pending, req, nreq, caller, bo, cm, agg>>

\* getCurrentUserMidFromAPI comes back: with an identifier, or it throws
\* (request failed, no data, not logged in)
NavSettles(ok) ==
    /\ loader.pc = "nav"
    /\ loader' = IF ok
                 THEN RequestPage([loader EXCEPT !.identity = "resolved"], 1)
                 ELSE FailLoad([loader EXCEPT !.identity = "unresolved"])
    /\ UNCHANGED <<comp, gt, sinceLast, cache, pending, req, nreq, caller, bo, cm, agg>>

PageSettles(resp, h) ==
    /\ loader.pc = "page"
    /\ Proceed(AfterPage(loader, resp), h)
    /\ UNCHANGED <<comp, gt, sinceLast, cache, pending, req, nreq, caller, bo, cm>>

\* the pause after a page of the incremental loader is over
PageSleepWake(h) ==
    /\ loader.pc = "pagesleep"
    /\ Proceed(WalkStep(loader), h)
    /\ UNCHANGED <<comp, gt, sinceLast, cache, pending, req, nreq, caller, bo, cm>>

\* a variant in which a failed call leaves no entry
MapAfterFetchNoEntry(map, id, ok) ==
    IF ok THEN [map EXCEPT ![id] = "list"] ELSE map

\* the try / catch around one getCommonFollowings call: map.set(mid, list)
\* or map.set(mid, [])
MapAfterFetch(map, id, ok) ==
    [map EXCEPT ![id] = IF ok THEN "list" ELSE "empty"]

\* the top of the loop over the identifiers when another unit remains: the
\* incremental loader waits while the pause flag is set
UnitGate(a, l, h) ==
    IF PauseGate(l) /\ a.i + UnitSize(l.kind) < a.n
    THEN [a EXCEPT !.st = "waitresume", !.sleepMs = 0]
    ELSE Continue(a, l.kind, h)

\* a getCommonFollowings call of the running unit comes back from the network
CommonSettles(id, ok, h) ==
    /\ agg.st = "unit"
    /\ id \in DOMAIN agg.fetch
    /\ agg.fetch[id] = "inflight"
    /\ LET a1 == [agg EXCEPT !.fetch[id] = IF ok THEN "ok" ELSE "fail",
                             !.map = MapAfterFetch(@, id, ok)]
           a2 == IF \A o \in UnitIds(a1, loader.kind) : a1.fetch[o] # "inflight"
                 THEN LET a3 == AfterUnit(a1, loader.kind)
                      IN  IF a3.st = "continue"
                          THEN UnitGate(a3, loader, h)
                          ELSE a3
                 ELSE a1
       IN  /\ agg' = a2
           /\ loader' = LoaderAfter(loader, a2)
    /\ UNCHANGED <<comp, gt, sinceLast, cache, pending, req, nreq, caller, bo, cm>>

\* the pause of the aggregation is over
PacingWake(h) ==
    /\ agg.st = "sleep"
    /\ LET a == UnitGate([agg EXCEPT !.sleepMs = 0], loader, h)
       IN  /\ agg' = a
           /\ loader' = LoaderAfter(loader, a)
    /\ UNCHANGED <<comp, gt, sinceLast, cache, pending, req, nreq, caller, bo, cm>>

\* a variant that asks again for the page it had before the pause
ResumePageAgain(l) == RequestPage(l, l.page)

\* the page loop after await waitForResume(): the request of the page the
\* loop variable names
ResumePage(l) == RequestPage(l, l.page + 1)

\* handleStartPause while a load is running (status loading_followings or
\* loading_relations): the pause flag is switched
handleStartPause ==
    /\ loader.kind = "incremental"
    /\ loader.pc \in {"page", "pagesleep", "waitresume", "aggregating"}
    /\ loader' = [loader EXCEPT !.paused = ~@]
    /\ UNCHANGED <<comp, gt, sinceLast, cache, pending, req, nreq, caller, bo, cm, agg>>

\* waitForResume: the check that runs every 100 ms finds the flag cleared and
\* the loop goes on with the request it was about to make
waitForResume(h) ==
    /\ ~loader.paused
    /\ \/ /\ loader.pc = "waitresume"
          /\ loader' = ResumePage([loader EXCEPT !.resumed = @ + 1])
          /\ agg' = agg
       \/ /\ agg.st = "waitresume"
          /\ LET a == IF agg.fetch[agg.i + 1] = "none"
                      THEN StartUnit(agg, loader.kind, h)
                      ELSE Continue(agg, loader.kind, h)
             IN  /\ agg' = a
                 /\ loader' = LoaderAfter([loader EXCEPT !.resumed = @ + 1], a)
    /\ UNCHANGED <<comp, gt, sinceLast, cache, pending, req, nreq, caller, bo, cm>>

\* The walk over the pages, with the pages served in full: the load up to the
\* start of the aggregation.
WalkTotals == {0, 1, pageSize, pageSize + 1, 2 * pageSize + 25}

NextWalk ==
    \/ \E kind \in Loaders, resolved \in BOOLEAN : LoadStart(kind, resolved)
    \/ \E ok \in BOOLEAN : NavSettles(ok)
    \/ \E t \in WalkTotals :
          /\ loader.page = 1 \/ t = loader.total
          /\ PageSettles(PageOk(t, FullLen(t, loader.page)), "none")
    \/ \E t \in WalkTotals :
          /\ loader.page = 1 \/ t = loader.total
          /\ PageSettles(PageOk(t, 1), "none")
    \/ PageSettles(PageMalformed, "none")
    \/ PageSettles(PageFailed, "none")
    \/ PageSleepWake("none")

SpecWalk == Init /\ [][NextWalk]_vars

\* The whole load, followed to its end, with short page lists.
LoadTotals == {0, 1, pageSize + 1}

FailedCalls == Cardinality({ id \in DOMAIN agg.fetch : agg.fetch[id] = "fail" })

NextLoad ==
    \/ \E kind \in Loaders, resolved \in BOOLEAN : LoadStart(kind, resolved)
    \/ \E ok \in BOOLEAN : NavSettles(ok)
    \/ \E t \in LoadTotals, len \in 0..MaxPageItems, h \in HitChoices :
          /\ loader.page = 1 \/ t = loader.total
          /\ PageSettles(PageOk(t, len), h)
    \/ \E h \in HitChoices : PageSettles(PageMalformed, h)
    \/ \E h \in HitChoices : PageSettles(PageFailed, h)
    \/ \E h \in HitChoices : PageSleepWake(h)
    \/ \E id \in 1..(2 * MaxPageItems), ok \in BOOLEAN, h \in HitChoices :
          CommonSettles(id, ok, h)
    \/ \E h \in HitChoices : PacingWake(h)

SpecLoad == Init /\ [][NextLoad]_vars

\* The incremental loader with its pause button.
NextPause ==
    \/ \E resolved \in BOOLEAN : LoadStart("incremental", resolved)
    \/ \E ok \in BOOLEAN : NavSettles(ok)
    \/ \E t \in LoadTotals, len \in 0..MaxPageItems, h \in HitChoices :
          /\ loader.page = 1 \/ t = loader.total
          /\ PageSettles(PageOk(t, len), h)
    \/ \E h \in HitChoices : PageSettles(PageFailed, h)
    \/ \E h \in HitChoices : PageSleepWake(h)
    \/ \E id \in 1..(2 * MaxPageItems), ok \in BOOLEAN, h \in HitChoices :
          CommonSettles(id, ok, h)
    \/ \E h \in HitChoices : PacingWake(h)
    \/ handleStartPause
    \/ \E h \in HitChoices : waitForResume(h)

SpecPause == Init /\ [][NextPause]_vars

\* the steps of the incremental load that responses, timers and the check of
\* waitForResume bring about
PauseProgress ==
    \/ \E ok \in BOOLEAN : NavSettles(ok)
    \/ \E t \in LoadTotals, len \in 0..MaxPageItems, h \in HitChoices :
          /\ loader.page = 1 \/ t = loader.total
          /\ PageSettles(PageOk(t, len), h)
    \/ \E h \in HitChoices : PageSettles(PageFailed, h)
    \/ \E h \in HitChoices : PageSleepWake(h)
    \/ \E id \in 1..(2 * MaxPageItems), ok \in BOOLEAN, h \in HitChoices :
          CommonSettles(id, ok, h)
    \/ \E h \in HitChoices : PacingWake(h)
    \/ \E h \in HitChoices : waitForResume(h)

\* every request settles, every timer fires, the check of waitForResume
\* runs; the button is pressed whenever the user likes
SpecPauseLive == SpecPause /\ WF_vars(PauseProgress)

\* The hook's loadAllData called again and again.
\* a variant that leaves dataLoaded as the last load set it
ResetLoadKeeps(prev) ==
    [NoLoad EXCEPT !.kind = "hook", !.loading = TRUE,
                   !.dataLoaded = prev.dataLoaded,
                   !.followingsList = prev.followingsList]

\* setLoading(true); setDataLoaded(false): the locals are new, followingsList
\* and commonFollowingsMap are the state the last load left
ResetLoad(prev) ==
    [NoLoad EXCEPT !.kind = "hook", !.loading = TRUE,
                   !.followingsList = prev.followingsList]

\* loadAllData of the hook is called after an earlier load has ended
LoadAgain(resolved) ==
    /\ loader.kind = "hook"
    /\ loader.pc \in {"done", "failed"}
    /\ LET l == [ResetLoad(loader) EXCEPT
                    !.identity = IF resolved THEN "resolved" ELSE "unresolved"]
       IN  loader' = IF NeedsIdentity("hook", resolved)
                     THEN FailLoad(l)
                     ELSE RequestPage(l, 1)
    /\ UNCHANGED <<comp, gt, sinceLast, cache, pending, req, nreq, caller, bo, cm, agg>>

\* the steps that network responses and timers bring about
LoadProgress ==
    \/ \E ok \in BOOLEAN : NavSettles(ok)
    \/ \E h \in HitChoices : PageSleepWake(h)
    \/ \E t \in LoadTotals, len \in 0..MaxPageItems, h \in HitChoices :
          /\ loader.page = 1 \/ t = loader.total
          /\ PageSettles(PageOk(t, len), h)
    \/ \E h \in HitChoices : PageSettles(PageMalformed, h)
    \/ \E h \in HitChoices : PageSettles(PageFailed, h)
    \/ \E id \in 1..(2 * MaxPageItems), ok \in BOOLEAN, h \in HitChoices :
          CommonSettles(id, ok, h)
    \/ \E h \in HitChoices : PacingWake(h)

NextReload ==
    \/ \E kind \in Loaders, resolved \in BOOLEAN : LoadStart(kind, resolved)
    \/ \E resolved \in BOOLEAN : LoadAgain(resolved)
    \/ LoadProgress

SpecReload == Init /\ [][NextReload]_vars

\* every request that was sent comes back and every timer fires
SpecReloadLive == SpecReload /\ WF_vars(LoadProgress)

\* The aggregation on its own: the walk has delivered a follow list of n
\* identifiers on one page and the first unit has been started.
\* more than one batch for the hook, a few identifiers for the incremental loader
MidCounts(kind) == IF kind = "hook" THEN {3, batchSize + 2} ELSE {1, 3}

InitBatch ==
    /\ sinceLast = MIN_REQUEST_INTERVAL_MS
    /\ cache = [v \in Vmids |-> NoEntry]
    /\ pending = [v \in Vmids |-> NoReq]
    /\ req = [r \in ReqIds |-> NoRequest]
    /\ nreq = 0
    /\ caller = [c \in Callers |-> NoCall]
    /\ bo = NoBackoff
    /\ cm = NoCacheManager
    /\ gt = NoGraph
    /\ comp = NoComponent
    /\ \E kind \in Loaders, n \in 1..(batchSize + 2), h \in HitChoices :
          /\ n \in MidCounts(kind)
          /\ LET l == [NoLoad EXCEPT
                      !.kind = kind, !.loading = TRUE, !.pc = "aggregating",
                      !.identity = "resolved", !.got = "ok",
                      !.page = 1, !.total = n, !.totalPages = 1,
                      !.allFollowings = <<[pn |-> 1, len |-> n]>>,
                      !.followingsList = <<[pn |-> 1, len |-> n]>>,
                      !.requested = <<1>>]
                 a == BeginAggregation(l.allFollowings, kind, h)
             IN  /\ agg = a
                 /\ loader = LoaderAfter(l, a)

NextBatch ==
    \/ \E id \in 1..(batchSize + 2), ok \in BOOLEAN, h \in HitChoices :
          /\ ok \/ FailedCalls < MaxAggFaults
          /\ CommonSettles(id, ok, h)
    \/ \E h \in HitChoices : PacingWake(h)

SpecBatch == InitBatch /\ [][NextBatch]_vars

\* ---- useGraphTransform ----

\* user.mid.toString() and parseInt(node.id)
IdString(mid) == [digits |-> mid]
ParseInt(id) == id.digits

\* a variant whose key does not tell the direction
LinkKeyUndirected(source, target) ==
    IF source.digits <= target.digits
    THEN <<source, "-", target>>
    ELSE <<target, "-", source>>

\* `${source}-${target}`
LinkKey(source, target) == <<source, "-", target>>

\* uniqueNodesMap.has(id)
NodesHas(nodes, id) == \E k \in 1..Len(nodes) : nodes[k] = id

\* a variant without the has() test
UniqueNodeAppend(nodes, id) == Append(nodes, id)

\* if (!uniqueNodesMap.has(id)) uniqueNodesMap.set(id, {...})
UniqueNode(nodes, id) == IF NodesHas(nodes, id) THEN nodes ELSE Append(nodes, id)

\* followingsList.forEach(...); Array.from(uniqueNodesMap.values()): the
\* identifiers in the order of their first occurrence
RECURSIVE AllNodesFrom(_, _, _)
AllNodesFrom(followingsList, i, nodes) ==
    IF i > Len(followingsList) THEN nodes
    ELSE AllNodesFrom(followingsList, i + 1,
                      UniqueNode(nodes, IdString(followingsList[i])))

AllNodes(followingsList) == AllNodesFrom(followingsList, 1, <<>>)

\* new Set(allNodes.map(n => parseInt(n.id)))
FollowingMidSet(allNodes) == { ParseInt(allNodes[k]) : k \in 1..Len(allNodes) }

\* a variant that takes every identifier for a followed one
FollowingMidSetHasAny(midSet, commonMid) == TRUE

\* followingMidSet.has(commonMid)
FollowingMidSetHas(midSet, commonMid) == commonMid \in midSet

\* linkSet.has(linkKey): linkSet and edgeMap receive the same keys
LinkSetHas(edgeMap, linkKey) ==
    \E k \in 1..Len(edgeMap) : edgeMap[k].key = linkKey

\* a variant that keeps every pair it is given, as a list would
RecordEdgePush(edgeMap, source, target) ==
    Append(edgeMap, [key |-> LinkKey(source, target),
                     source |-> source, target |-> target])

\* if (!linkSet.has(linkKey)) { edgeMap.set(linkKey, {source, target});
\* linkSet.add(linkKey) }: edgeMap in the order of insertion
RecordEdge(edgeMap, source, target) ==
    IF LinkSetHas(edgeMap, LinkKey(source, target))
    THEN edgeMap
    ELSE Append(edgeMap, [key |-> LinkKey(source, target),
                          source |-> source, target |-> target])

\* commonMids.forEach(commonMid => ...) for one node
RECURSIVE CollectTargets(_, _, _, _, _)
CollectTargets(node, commonMids, j, midSet, edgeMap) ==
    IF j > Len(commonMids) THEN edgeMap
    ELSE CollectTargets(node, commonMids, j + 1, midSet,
            IF FollowingMidSetHas(midSet, commonMids[j])
            THEN RecordEdge(edgeMap, node, IdString(commonMids[j]))
            ELSE edgeMap)

\* allNodes.forEach(node => ...): nodes without an entry in the map are
\* passed over
RECURSIVE CollectEdges(_, _, _, _, _)
CollectEdges(allNodes, i, commonFollowingsMap, midSet, edgeMap) ==
    IF i > Len(allNodes) THEN edgeMap
    ELSE LET commonMids == commonFollowingsMap[ParseInt(allNodes[i])]
         IN  CollectEdges(allNodes, i + 1, commonFollowingsMap, midSet,
                IF ~commonMids.present THEN edgeMap
                ELSE CollectTargets(allNodes[i], commonMids.list, 1,
                                    midSet, edgeMap))

\* a variant that looks up the edge's own key
ReverseKeySame(edge) == LinkKey(edge.source, edge.target)

\* `${edge.target}-${edge.source}`
ReverseKey(edge) == LinkKey(edge.target, edge.source)

\* the second pass over edgeMap: the keys of the edges whose reverse is
\* in edgeMap, and the keys of those reverses
BidirectionalSet(edgeMap) ==
    UNION { {edgeMap[k].key, ReverseKey(edgeMap[k])} :
              k \in { k \in 1..Len(edgeMap) :
                        LinkSetHas(edgeMap, ReverseKey(edgeMap[k])) } }

\* a variant whose reversed link loses its colour
LinkUntaggedSwap(edge, isBidirectional, swapLinkDirection) ==
    IF swapLinkDirection
    THEN [source |-> edge.target, target |-> edge.source,
          color |-> NoColor]
    ELSE [source |-> edge.source, target |-> edge.target,
          color |-> IF isBidirectional
                    THEN LINK_COLOR_BIDIRECTIONAL ELSE NoColor]

\* links.push({source, target, color}) in either direction
Link(edge, isBidirectional, swapLinkDirection) ==
    IF swapLinkDirection
    THEN [source |-> edge.target, target |-> edge.source,
          color |-> IF isBidirectional
                    THEN LINK_COLOR_BIDIRECTIONAL ELSE NoColor]
    ELSE [source |-> edge.source, target |-> edge.target,
          color |-> IF isBidirectional
                    THEN LINK_COLOR_BIDIRECTIONAL ELSE NoColor]

\* the third pass over edgeMap
Links(edgeMap, swapLinkDirection) ==
    [k \in 1..Len(edgeMap) |->
        Link(edgeMap[k], edgeMap[k].key \in BidirectionalSet(edgeMap),
             swapLinkDirection)]

\* a variant that collects the sources only
ConnectedNodeIdsSources(links) == { links[k].source : k \in 1..Len(links) }

\* connectedNodeIds: the sources and the targets of the links
ConnectedNodeIds(links) ==
    { links[k].source : k \in 1..Len(links) }
        \cup { links[k].target : k \in 1..Len(links) }

\* a variant that counts a link for its source only
NodeDegreeSources(links) ==
    [id \in { links[k].source : k \in 1..Len(links) }
            \cup { links[k].target : k \in 1..Len(links) } |->
        Cardinality({ k \in 1..Len(links) : links[k].source = id })]

\* nodeDegree: one for the source and one for the target of every link
NodeDegree(links) ==
    [id \in { links[k].source : k \in 1..Len(links) }
            \cup { links[k].target : k \in 1..Len(links) } |->
        Cardinality({ k \in 1..Len(links) : links[k].source = id })
          + Cardinality({ k \in 1..Len(links) : links[k].target = id })]

\* nodeDegree.get(node.id) || 1: the degree the size of a node is computed from
SizeDegree(nodeDegree, id) ==
    IF id \in DOMAIN nodeDegree /\ nodeDegree[id] # 0 THEN nodeDegree[id] ELSE 1

\* a variant that counts the follow list as it came
StatsOfList(followingsList, allNodes, filteredNodes, links) ==
    [total |-> Len(followingsList), connected |-> Len(filteredNodes),
     links |-> Len(links)]

\* setStats({total, connected, links})
Stats(followingsList, allNodes, filteredNodes, links) ==
    [total |-> Len(allNodes), connected |-> Len(filteredNodes),
     links |-> Len(links)]

\* the body of useMemo for the arguments held in g: graphData, and the
\* degrees and statistics it sets on the way
useGraphTransform(g) ==
    IF ~g.dataLoaded \/ Len(g.followingsList) = 0
    THEN [g EXCEPT !.graphData = NullGraph]
    ELSE LET allNodes == AllNodes(g.followingsList)
             edgeMap == CollectEdges(allNodes, 1, g.commonFollowingsMap,
                                     FollowingMidSet(allNodes), <<>>)
             links == Links(edgeMap, g.swapLinkDirection)
             connectedNodeIds == ConnectedNodeIds(links)
             filteredNodes ==
                 SelectSeq(allNodes, LAMBDA id : id \in connectedNodeIds)
             nodeDegree == NodeDegree(links)
         IN  [g EXCEPT
                !.graphData =
                    [isNull |-> FALSE,
                     nodes |-> [k \in 1..Len(filteredNodes) |->
                                  [id |-> filteredNodes[k],
                                   sizeDegree |->
                                      SizeDegree(nodeDegree, filteredNodes[k])]],
                     links |-> links],
                !.nodeDegreeMap = nodeDegree,
                !.stats = Stats(g.followingsList, allNodes, filteredNodes, links)]

\* the hook is rendered with new arguments
Render(g) ==
    /\ gt' = useGraphTransform(g)
    /\ UNCHANGED <<sinceLast, cache, pending, req, nreq, caller, bo, cm,
                   loader, agg, comp>>

\* setFollowingsList: one more user in the list
AddFollowing(mid) ==
    /\ Len(gt.followingsList) < MaxFollows
    /\ Render([gt EXCEPT !.followingsList = Append(@, mid)])

\* how many identifiers the lists of the map hold
RECURSIVE CommonCount(_, _)
CommonCount(map, keys) ==
    IF keys = {} THEN 0
    ELSE LET m == CHOOSE m \in keys : TRUE
         IN  Len(map[m].list) + CommonCount(map, keys \ {m})

\* setCommonFollowingsMap: an entry for a user of the list, empty at first
AddEntry(mid) ==
    /\ \E k \in 1..Len(gt.followingsList) : gt.followingsList[k] = mid
    /\ ~gt.commonFollowingsMap[mid].present
    /\ Render([gt EXCEPT !.commonFollowingsMap[mid] = List(<<>>)])

\* setCommonFollowingsMap: one more identifier in the list of a user
AddCommon(mid, commonMid) ==
    /\ gt.commonFollowingsMap[mid].present
    /\ Len(gt.commonFollowingsMap[mid].list) < MaxCommon
    /\ CommonCount(gt.commonFollowingsMap, Mids) < MaxCommon + 1
    /\ Render([gt EXCEPT !.commonFollowingsMap[mid] = List(Append(@.list, commonMid))])

\* debugParams.swapLinkDirection is switched
SetSwap ==
    /\ gt.swapLinkDirection \in BOOLEAN
    /\ Render([gt EXCEPT !.swapLinkDirection = ~@])

\* setDataLoaded(true)
SetDataLoaded ==
    /\ ~gt.dataLoaded
    /\ Render([gt EXCEPT !.dataLoaded = TRUE])

NextGraph ==
    \/ \E mid \in Mids : AddFollowing(mid)
    \/ \E mid \in Mids : AddEntry(mid)
    \/ \E mid \in Mids, commonMid \in Mids \cup {OutsideMid} :
          AddCommon(mid, commonMid)
    \/ SetSwap
    \/ SetDataLoaded

SpecGraph == Init /\ [][NextGraph]_vars

----------------------------------------------------------------------------
(* Properties *)

InFlight(q) == q.st \in {"ratewait", "inflight", "backoff", "resolved", "rejected"}

RequestsInFlight(v) == { r \in ReqIds : req[r].key = v /\ InFlight(req[r]) }

\* C1: for every key at most one request() is in flight at any instant, the
\* pending entry of the key is that request, and all the calls for the key
\* that are waiting at the same time wait for that one request; so a second
\* request for a key is issued only after the first has settled and its
\* pending entry is gone.
C1_SingleFlightPerKey ==
    /\ \A v \in Vmids :
          /\ Cardinality(RequestsInFlight(v)) <= 1
          /\ \A r \in RequestsInFlight(v) : pending[v] = r
    /\ \A c \in Callers, d \in Callers :
          (/\ caller[c].st = "waiting" /\ caller[d].st = "waiting"
           /\ caller[c].vmid = caller[d].vmid)
          => caller[c].req = caller[d].req

\* two calls for one key wait together for one request in flight
C1_Witness ==
    \E c \in Callers, d \in Callers :
        /\ c < d
        /\ caller[c].st = "waiting" /\ caller[d].st = "waiting"
        /\ caller[c].vmid = caller[d].vmid
        /\ caller[c].req = caller[d].req
        /\ InFlight(req[caller[c].req])
        /\ nreq = 1

GrantedNow(r) == req[r].st # "inflight" /\ req'[r].st = "inflight"

\* C2: whenever waitForRateLimit returns and the network call is issued, at
\* least MIN_REQUEST_INTERVAL_MS have passed since the previous grant.
C2_GrantsSpaced ==
    [][\A r \in ReqIds : GrantedNow(r) => sinceLast >= MIN_REQUEST_INTERVAL_MS]_vars

MaxRetries == DEFAULT_RETRY_CONFIG.maxRetries

\* C3: a request() that returns successfully after k attempts that failed
\* with a retryable error has made k + 1 network attempts, slept k backoff
\* sleeps and emitted k warnings, k <= maxRetries, and returns the response
\* of the last attempt; with -412 on the first two attempts and success on
\* the third that is 2 sleeps.
C3_RetryThenSuccess ==
    \A r \in ReqIds :
        req[r].st = "resolved" =>
            /\ req[r].retryFails <= MaxRetries
            /\ req[r].attempts = req[r].retryFails + 1
            /\ req[r].sleeps = req[r].retryFails
            /\ req[r].warns = req[r].sleeps
            /\ req[r].result = Resolve(req[r].lastResp.data)
            /\ (req[r].onlyRisk /\ req[r].attempts = 3 => req[r].sleeps = 2)

\* -412 on the first two attempts, success on the third
C3_Witness ==
    \E r \in ReqIds :
        /\ req[r].st = "resolved"
        /\ req[r].attempts = 3
        /\ req[r].retryFails = 2
        /\ req[r].onlyRisk
        /\ req[r].sleeps = 2

AttemptsBounded ==
    \A r \in ReqIds :
        /\ req[r].attempts <= MaxRetries + 1
        /\ req[r].sleeps <= MaxRetries
        /\ (req[r].st = "rejected" /\ req[r].retryFails = req[r].attempts) =>
                /\ req[r].attempts = MaxRetries + 1
                /\ req[r].sleeps = MaxRetries
                /\ req[r].result = executeRequest(req[r].lastResp)

\* C4: request() makes at most maxRetries + 1 network attempts; when every
\* attempt failed with a retryable error it has made exactly maxRetries + 1
\* attempts and maxRetries sleeps when it throws, and it throws the error of
\* the last attempt; and every request() call that was made returns or
\* throws in the end.
C4_BoundedAttempts ==
    /\ []AttemptsBounded
    /\ \A r \in ReqIds :
          (req[r].st # "unused") ~> (req[r].st \in {"fulfilled", "failed"})

\* every attempt failed with a retryable error and request() has thrown
C4_Witness ==
    \E r \in ReqIds :
        /\ req[r].st = "rejected"
        /\ req[r].retryFails = MaxRetries + 1
        /\ req[r].attempts = MaxRetries + 1
        /\ req[r].sleeps = MaxRetries

IsRiskControl(resp) ==
    resp.kind = "load" /\ resp.parsed /\ resp.code = CODE_RISK_CONTROL

\* C5: an attempt answered with application code -412 is classified as
\* retryable whatever the HTTP status, so request() gives up on it only when
\* no attempt remains.
C5_RiskControlRetried ==
    \A r \in ReqIds :
        IsRiskControl(req[r].lastResp) =>
            /\ req[r].lastRetryable
            /\ (req[r].st = "rejected" => req[r].attempt >= MaxRetries)

\* a response that loaded with a 2xx status and is a request error: a body
\* that does not parse, or an application code other than 0 and -412
IsClientFailure(resp) ==
    /\ resp.kind = "load"
    /\ resp.status >= 200 /\ resp.status < 300
    /\ (~resp.parsed \/ resp.code \notin {CODE_OK, CODE_RISK_CONTROL})

\* C6: after an attempt that failed with a request error request() has
\* thrown: it is not asleep and makes no further attempt.
C6_ClientFailureFatal ==
    \A r \in ReqIds :
        IsClientFailure(req[r].lastResp) => req[r].st = "rejected"

\* the failures the retry rule names: status 429 (HTTP, or mapped from -412),
\* a 5xx status, a network failure, a timeout
RetryableByRule(resp) ==
    \/ resp.kind \in {"error", "timeout"}
    \/ /\ resp.kind = "load"
       /\ (resp.status < 200 \/ resp.status >= 300)
       /\ (resp.status = 429 \/ (resp.status >= 500 /\ resp.status <= 599))
    \/ /\ resp.kind = "load"
       /\ resp.status >= 200 /\ resp.status < 300
       /\ IsRiskControl(resp)

\* C7: isRetryableError is true of a failed attempt exactly when the failure
\* carries status 429 or a 5xx status or is a network failure or a timeout.
C7_RetryableExactly ==
    \A r \in ReqIds :
        (req[r].lastResp.kind # "none" /\ ~executeRequest(req[r].lastResp).ok)
        => (req[r].lastRetryable <=> RetryableByRule(req[r].lastResp))

ExponentialDelay == bo.config.baseDelayMs * Pow2(bo.attempt)

\* C8 as stated: the delay lies in
\* [baseDelay * 2^n, min(maxDelay, baseDelay * 2^n * 1.3)].
C8_BackoffBoundAsStated ==
    bo.done =>
        /\ bo.delay >= ExponentialDelay
        /\ 10 * bo.delay <= Min(10 * bo.config.maxDelayMs, 13 * ExponentialDelay)

\* C8, amended: the delay lies in
\* [min(maxDelay, baseDelay * 2^n), min(maxDelay, baseDelay * 2^n * 1.3)].
C8_BackoffBound ==
    bo.done =>
        /\ bo.delay >= Min(bo.config.maxDelayMs, ExponentialDelay)
        /\ 10 * bo.delay <= Min(10 * bo.config.maxDelayMs, 13 * ExponentialDelay)

\* a delay cut down to maxDelayMs, below baseDelay * 2^n
C8_Witness ==
    /\ bo.done
    /\ ExponentialDelay > bo.config.maxDelayMs
    /\ bo.delay = bo.config.maxDelayMs

\* C9: a pending entry never outlives its request: an entry names a request
\* of its key that has not settled, and when the outcome has reached a
\* caller the entry of that request is gone, after a success and after a
\* failure alike.
C9_PendingRemovedOnSettle ==
    /\ \A v \in Vmids :
          pending[v] # NoReq =>
              /\ req[pending[v]].key = v
              /\ InFlight(req[pending[v]])
    /\ \A c \in Callers :
          (caller[c].st = "done" /\ caller[c].req # NoReq)
          => pending[caller[c].vmid] # caller[c].req

\* a caller has received a failure, and a later call for the same key has
\* issued a fresh request
C9_Witness ==
    \E c \in Callers, r \in ReqIds :
        /\ caller[c].st = "done" /\ caller[c].req # NoReq
        /\ ~caller[c].result.ok
        /\ r > caller[c].req
        /\ req[r].key = caller[c].vmid
        /\ InFlight(req[r])
        /\ pending[caller[c].vmid] = r

\* C10: the callers that join a pending request get the outcome of that one
\* request: a call made for a key while an earlier call for the key is still
\* waiting waits for the same request, and what a caller receives is the
\* outcome of the request it waited for.
C10_SharedOutcome ==
    /\ \A c \in Callers, d \in Callers :
          (/\ c < d
           /\ caller[c].st = "waiting"
           /\ caller[d].st # "idle" /\ ~caller[d].fromCache
           /\ caller[c].vmid = caller[d].vmid)
          => caller[d].req = caller[c].req
    /\ \A c \in Callers :
          (caller[c].st = "done" /\ ~caller[c].fromCache) =>
              /\ Settled(req[caller[c].req])
              /\ req[caller[c].req].key = caller[c].vmid
              /\ caller[c].result = req[caller[c].req].result

\* two callers have received the outcome of one request that was retried
C10_Witness ==
    \E c \in Callers, d \in Callers :
        /\ c < d
        /\ caller[c].st = "done" /\ caller[d].st = "done"
        /\ caller[c].req # NoReq
        /\ caller[c].req = caller[d].req
        /\ req[caller[c].req].retryFails >= 1
        /\ caller[c].result = caller[d].result
        /\ nreq = 1

\* C11: a get(k) made right after a set(k, v) whose write succeeded returns
\* v, for every key and every value JSON can carry, whatever was done before.
C11_CacheRoundTrip ==
    (cm.last.op = "get" /\ cm.last.afterSet
     /\ cm.last.setValue \in SerializableValues)
    => cm.last.ret = cm.last.setValue

\* a get right after a successful set over an item that had expired
C11_Witness ==
    /\ cm.last.op = "get" /\ cm.last.afterSet
    /\ cm.last.setValue = JsNumber(0)
    /\ cm.last.ret = JsNumber(0)
    /\ \E k \in CacheKeys : k # cm.last.key /\ cm.store[StorageKey(k)].present

\* C12: a get(k) that finds an item whose expiry time has passed returns null
\* and removes the item; a get(k) that finds no item returns null; so after
\* the expiry get(k) returns null until a new set(k, ...).
C12_CacheExpiry ==
    cm.last.op = "get" =>
        /\ (cm.last.found = "expired" =>
                /\ cm.last.ret = JsNull
                /\ ~cm.store[StorageKey(cm.last.key)].present)
        /\ (cm.last.found = "absent" =>
                /\ cm.last.ret = JsNull
                /\ ~cm.store[StorageKey(cm.last.key)].present)
        /\ (cm.store[StorageKey(cm.last.key)].present =>
                ~ItemExpired(cm.store[StorageKey(cm.last.key)]))

\* a get has found an expired item and evicted it
C12_Witness ==
    /\ cm.last.op = "get"
    /\ cm.last.found = "expired"
    /\ cm.last.ret = JsNull
    /\ ~cm.store[StorageKey(cm.last.key)].present

\* C13: when the request of getCommonFollowings has succeeded, the request
\* promise is fulfilled with the fetched response whether or not the write
\* to the cache succeeds, and the cache is then either as it was or holds the
\* new entry under that key.
C13_WriteFailureSwallowed ==
    [][\A r \in ReqIds :
          (req[r].st = "resolved" /\ Settled(req'[r])) =>
              /\ req'[r].st = "fulfilled"
              /\ req'[r].result = req[r].result
              /\ \/ cache' = cache
                 \/ cache' = [cache EXCEPT ![req[r].key] =
                                 [data |-> req[r].result.data,
                                  expiresIn |-> CacheTtlMs]]]_vars

\* the only request made so far succeeded, its caller has the response, and
\* nothing was written to the cache
C13_Witness ==
    /\ nreq = 1
    /\ req[1].st = "fulfilled"
    /\ caller[1].st = "done" /\ caller[1].result.ok /\ ~caller[1].fromCache
    /\ caller[1].result = req[1].result
    /\ cache = [v \in Vmids |-> NoEntry]
    /\ caller[2].st = "idle"

\* the walk over the pages is over and the aggregation has been called
WalkOver == loader.pc \in {"aggregating", "done"}

\* the smallest k with k * pageSize >= t
CeilPages(t) ==
    CHOOSE k \in 0..t : k * pageSize >= t /\ (k = 0 \/ (k - 1) * pageSize < t)

\* C14: the pages are requested in the order 1, 2, 3, ..., a page only after
\* the one before it has come back and been used; when the walk is over and
\* the first page reported T >= 1, exactly ceil(T / pageSize) pages were
\* requested and the follow list is the page lists in page order (125 with
\* pages of 50: 3 requests, and 125 identifiers when the pages come in full).
C14_PageWalk ==
    /\ \A i \in 1..Len(loader.requested) : loader.requested[i] = i
    /\ loader.pc = "page" =>
          /\ loader.page = Len(loader.requested)
          /\ Len(loader.allFollowings) + Len(loader.skipped)
                = Len(loader.requested) - 1
    /\ (WalkOver /\ loader.total >= 1) =>
          /\ Len(loader.requested) = CeilPages(loader.total)
          /\ Len(loader.allFollowings) + Len(loader.skipped)
                = Len(loader.requested)
          /\ \A i \in 1..Len(loader.allFollowings),
                j \in 1..Len(loader.allFollowings) :
                i < j => loader.allFollowings[i].pn < loader.allFollowings[j].pn
          /\ (loader.skipped = <<>> =>
                \A i \in 1..Len(loader.allFollowings) :
                    loader.allFollowings[i].pn = i)
          /\ agg.n = SumLen(loader.allFollowings)
          /\ ((/\ loader.total = 2 * pageSize + 25
               /\ \A i \in 1..Len(loader.allFollowings) :
                     loader.allFollowings[i].len
                        = FullLen(loader.total, loader.allFollowings[i].pn)
               /\ loader.skipped = <<>>)
              => Len(loader.requested) = 3 /\ agg.n = 2 * pageSize + 25)

\* total = 125: three pages were requested and 125 identifiers are aggregated
C14_Witness ==
    /\ WalkOver
    /\ loader.total = 2 * pageSize + 25
    /\ loader.requested = <<1, 2, 3>>
    /\ agg.n = 2 * pageSize + 25

\* C15: a page that comes back without a usable list does not end the load:
\* it is skipped and the walk goes on.
C15_MalformedPageSkipped ==
    loader.got = "malformed" =>
        /\ loader.pc # "failed"
        /\ loader.skipped # <<>>
        /\ loader.skipped[Len(loader.skipped)] = Len(loader.allFollowings) + Len(loader.skipped)

\* the entry of the map that the outcome of a call leaves
EntryOf(f) ==
    IF f \in {"ok", "cached"} THEN "list"
    ELSE IF f = "fail" THEN "empty"
    ELSE "unset"

\* C16: the aggregation never raises and never gets stuck; the entry of every
\* identifier is decided by the outcome of its own call alone (a list after a
\* result, the empty list after a failure), and when the aggregation is done
\* every identifier has an entry.
C16_PartialFailure ==
    /\ loader.pc # "failed"
    /\ loader.errors = 0
    /\ DOMAIN agg.map = 1..agg.n
    /\ \A id \in 1..agg.n : agg.map[id] = EntryOf(agg.fetch[id])
    /\ agg.st = "done" =>
          /\ agg.published
          /\ \A id \in 1..agg.n : agg.map[id] \in {"list", "empty"}
    /\ agg.st # "done" =>
          \/ agg.st = "sleep"
          \/ /\ agg.st = "unit"
             /\ \E id \in UnitIds(agg, loader.kind) : agg.fetch[id] = "inflight"

\* identifiers 1, 2, 3 with the call for 2 failing: lists for 1 and 3, the
\* empty list for 2
C16_Witness ==
    /\ agg.st = "done"
    /\ agg.n = 3
    /\ agg.fetch[2] = "fail"
    /\ agg.map = <<"list", "empty", "list">>

\* the batch of an identifier, counted from 0
BatchOf(id) == (id - 1) \div batchSize

\* C17: at most batchSize calls are in flight at any time, and a call of a
\* batch has been made only when every call of the batches before it has
\* settled, with a result or with a failure.
C17_BatchesOfTen ==
    /\ Cardinality({ id \in 1..agg.n : agg.fetch[id] = "inflight" }) <= batchSize
    /\ \A id \in 1..agg.n, o \in 1..agg.n :
          (BatchOf(o) < BatchOf(id) /\ agg.fetch[id] # "none")
             => agg.fetch[o] \notin {"none", "inflight"}

\* the second batch is in flight after a first batch in which a call failed
C17_Witness ==
    /\ loader.kind = "hook"
    /\ agg.n > batchSize
    /\ agg.fetch[batchSize + 1] = "inflight"
    /\ \E o \in 1..batchSize : agg.fetch[o] = "fail"

\* C18: the aggregation pauses between two units only when a result of the
\* unit came from the network; after a unit served from the cache alone the
\* next unit starts without any pause.
C18_NoPauseAfterCache ==
    agg.st = "sleep" =>
        \E id \in UnitIds(agg, loader.kind) : agg.fetch[id] \in {"ok", "fail"}

\* every page request made so far has come back and been used or skipped
PagesSettled ==
    /\ loader.pc # "page"
    /\ Len(loader.allFollowings) + Len(loader.skipped) = Len(loader.requested)

\* C19: a getCommonFollowings call has been made only when the walk over the
\* pages is over, with every page up to the last requested and settled; the
\* data is marked as loaded only when the aggregation is done and the call of
\* every identifier has settled and left its entry.
C19_StagesInOrder ==
    /\ (\E id \in 1..agg.n : agg.fetch[id] # "none") =>
          /\ loader.pc \in {"aggregating", "done"}
          /\ PagesSettled
          /\ Len(loader.requested) >= loader.totalPages
    /\ loader.dataLoaded =>
          /\ agg.st = "done"
          /\ \A id \in 1..agg.n :
                /\ agg.fetch[id] \in {"ok", "cached", "fail"}
                /\ agg.map[id] # "unset"

\* loaded after two pages and an aggregation with a call to the network
C19_Witness ==
    /\ loader.dataLoaded
    /\ loader.requested = <<1, 2>>
    /\ agg.n >= 2
    /\ \E id \in 1..agg.n : agg.fetch[id] = "ok"

\* C20: while the identity of the user is not resolved no page of the follow
\* list and no common followings are requested and the data is not marked as
\* loaded; once it is known to be unresolved the load has ended with exactly
\* one error.
C20_NoIdentityNoLoad ==
    /\ loader.identity # "resolved" =>
          /\ loader.requested = <<>>
          /\ agg.st = "idle"
          /\ ~loader.dataLoaded
    /\ loader.identity = "unresolved" =>
          /\ loader.pc = "failed"
          /\ loader.errors = 1
          /\ ~loader.loading

\* the incremental loader after getCurrentUserMidFromAPI has failed
C20_Witness ==
    /\ loader.kind = "incremental"
    /\ loader.identity = "unresolved"
    /\ loader.navRequests = 1
    /\ loader.errors = 1

\* the requests of the load that have been started
Started == [pages |-> Len(loader.requested),
            calls |-> { id \in 1..agg.n : agg.fetch[id] # "none" }]

\* C21: a step taken while the pause flag is set starts no page request and
\* no getCommonFollowings call; switching the flag leaves the request in
\* flight alone; and the result of every page and every call that has come
\* back, paused or not, is in the follow list and in the map.
C21_CooperativePause ==
    [][/\ (loader.paused /\ loader'.paused) => Started' = Started
       /\ loader'.paused # loader.paused =>
             /\ Started' = Started
             /\ loader'.pc = loader.pc
             /\ agg' = agg
       /\ (loader.pc = "page" /\ loader'.pc # "page" /\ loader'.pc # "failed") =>
             Len(loader'.allFollowings) = Len(loader.allFollowings) + 1
       /\ \A id \in 1..agg.n :
             (agg.fetch[id] = "inflight" /\ agg'.fetch[id] # "inflight") =>
                 /\ agg'.fetch[id] \in {"ok", "fail"}
                 /\ agg'.map[id] = EntryOf(agg'.fetch[id])]_vars

\* the loader waits at the top of the loop over the identifiers, the pause
\* flag set, after a call that was in flight has come back with its list
C21_Witness ==
    /\ loader.paused
    /\ agg.st = "waitresume"
    /\ agg.fetch[1] = "ok"
    /\ agg.map[1] = "list"
    /\ agg.fetch[2] = "none"

\* the links of the graph that was built last
BuiltLinks == gt.graphData.links

\* the ordered pairs of the built links
BuiltPairs == { <<BuiltLinks[k].source, BuiltLinks[k].target>> :
                  k \in 1..Len(BuiltLinks) }

\* C22: no two built links have the same ordered pair (source, target),
\* whatever the follow list and the lists of the map, repeated identifiers
\* included.
C22_EdgeDedup ==
    \A i \in 1..Len(BuiltLinks), j \in 1..Len(BuiltLinks) :
        (BuiltLinks[i].source = BuiltLinks[j].source
           /\ BuiltLinks[i].target = BuiltLinks[j].target) => i = j

\* a list of the map names the same followed user twice and one link was built
C22_Witness ==
    /\ ~gt.graphData.isNull
    /\ gt.followingsList = <<1, 2>>
    /\ gt.commonFollowingsMap[1].list = <<2, 2>>
    /\ Len(BuiltLinks) = 1

\* the users of the follow list
Followed == { gt.followingsList[k] : k \in 1..Len(gt.followingsList) }

\* user a is followed, has a list in the map, and the list names the
\* followed user b
Recorded(a, b) ==
    /\ ParseInt(a) \in Followed
    /\ ParseInt(b) \in Followed
    /\ gt.commonFollowingsMap[ParseInt(a)].present
    /\ \E j \in 1..Len(gt.commonFollowingsMap[ParseInt(a)].list) :
          gt.commonFollowingsMap[ParseInt(a)].list[j] = ParseInt(b)

Tagged(link) == link.color = LINK_COLOR_BIDIRECTIONAL

\* C23: a built link is tagged bidirectional exactly when the pair and its
\* reverse were both recorded, and then the link of the reverse pair is built
\* too and carries the tag.
C23_BidirectionalSymmetry ==
    \A k \in 1..Len(BuiltLinks) :
        /\ Tagged(BuiltLinks[k]) <=>
              /\ Recorded(BuiltLinks[k].source, BuiltLinks[k].target)
              /\ Recorded(BuiltLinks[k].target, BuiltLinks[k].source)
        /\ Tagged(BuiltLinks[k]) =>
              \E r \in 1..Len(BuiltLinks) :
                  /\ BuiltLinks[r].source = BuiltLinks[k].target
                  /\ BuiltLinks[r].target = BuiltLinks[k].source
                  /\ Tagged(BuiltLinks[r])

\* users 1 and 2 name each other, user 2 also names user 3: two tagged links
\* and one without the tag
C23_Witness ==
    /\ Len(BuiltLinks) = 3
    /\ \E k \in 1..3 : Tagged(BuiltLinks[k]) /\ BuiltLinks[k].source = IdString(1)
                         /\ BuiltLinks[k].target = IdString(2)
    /\ \E k \in 1..3 : Tagged(BuiltLinks[k]) /\ BuiltLinks[k].source = IdString(2)
                         /\ BuiltLinks[k].target = IdString(1)
    /\ \E k \in 1..3 : ~Tagged(BuiltLinks[k])

\* the nodes of the graph that was built last, and their identifiers
BuiltNodes == gt.graphData.nodes
BuiltNodeIds == { BuiltNodes[k].id : k \in 1..Len(BuiltNodes) }

\* the degree that was computed for a node
DegreeOf(id) ==
    IF id \in DOMAIN gt.nodeDegreeMap THEN gt.nodeDegreeMap[id] ELSE 0

RECURSIVE DegreeSum(_)
DegreeSum(nodes) ==
    IF nodes = <<>> THEN 0
    ELSE DegreeOf(Head(nodes).id) + DegreeSum(Tail(nodes))

\* C24: the computed degrees of the retained nodes add up to twice the number
\* of built links.
C24_DegreeSum ==
    ~gt.graphData.isNull => DegreeSum(BuiltNodes) = 2 * Len(BuiltLinks)

\* three retained nodes and three links, two of them a mutual pair
C24_Witness ==
    /\ Len(BuiltNodes) = 3
    /\ Len(BuiltLinks) = 3
    /\ DegreeSum(BuiltNodes) = 6
    /\ \E k \in 1..3 : Tagged(BuiltLinks[k])

\* the identifiers that are an end of a built link
Incident == { id \in { IdString(m) : m \in Followed \cup {OutsideMid} } :
                \E k \in 1..Len(BuiltLinks) :
                    BuiltLinks[k].source = id \/ BuiltLinks[k].target = id }

\* C25: the retained nodes are exactly the identifiers with a built link at
\* one of their ends, and each of them has a degree of at least one.
C25_IsolationFilter ==
    ~gt.graphData.isNull =>
        /\ BuiltNodeIds = Incident
        /\ \A id \in BuiltNodeIds : DegreeOf(id) >= 1

\* three users are followed, one link from user 1 to user 2: user 2, who
\* names nobody, is retained and user 3 is dropped
C25_Witness ==
    /\ ~gt.graphData.isNull
    /\ Followed = {1, 2, 3}
    /\ ~gt.swapLinkDirection
    /\ BuiltPairs = { <<IdString(1), IdString(2)>> }
    /\ BuiltNodeIds = { IdString(1), IdString(2) }

\* users A = 1, B = 2, C = 3 are followed; A names B, B names A and C, C
\* names nobody; the direction is not swapped
MutualScenario ==
    /\ gt.dataLoaded
    /\ ~gt.swapLinkDirection
    /\ Len(gt.followingsList) = 3
    /\ Followed = {1, 2, 3}
    /\ gt.commonFollowingsMap[1] = List(<<2>>)
    /\ gt.commonFollowingsMap[2] = List(<<1, 3>>)
    /\ gt.commonFollowingsMap[3] = List(<<>>)

\* the built link of a pair carries the tag
PairTagged(a, b) ==
    \E k \in 1..Len(BuiltLinks) :
        /\ BuiltLinks[k].source = IdString(a)
        /\ BuiltLinks[k].target = IdString(b)
        /\ Tagged(BuiltLinks[k])

Exchanged(link) ==
    [source |-> link.target, target |-> link.source, color |-> link.color]

\* C27: when swapLinkDirection alone changes, every link of the new graph is
\* the link at the same place of the old one with source and target
\* exchanged and the same tag, and the nodes, the degrees and the statistics
\* are the same.
C27_SwapInvariance ==
    [][(/\ gt'.swapLinkDirection # gt.swapLinkDirection
        /\ gt'.followingsList = gt.followingsList
        /\ gt'.commonFollowingsMap = gt.commonFollowingsMap
        /\ gt'.dataLoaded = gt.dataLoaded)
       => /\ gt'.graphData.isNull = gt.graphData.isNull
          /\ Len(gt'.graphData.links) = Len(gt.graphData.links)
          /\ \A k \in 1..Len(gt.graphData.links) :
                gt'.graphData.links[k] = Exchanged(gt.graphData.links[k])
          /\ gt'.graphData.nodes = gt.graphData.nodes
          /\ gt'.nodeDegreeMap = gt.nodeDegreeMap
          /\ gt'.stats = gt.stats]_vars

\* built with the direction swapped: the tagged pair of users 1 and 2, and
\* the link recorded for user 2 naming user 3 stored as (3, 2) without the tag
C27_Witness ==
    /\ gt.swapLinkDirection
    /\ PairTagged(1, 2)
    /\ PairTagged(2, 1)
    /\ <<IdString(3), IdString(2)>> \in BuiltPairs
    /\ ~PairTagged(3, 2)
    /\ ~Recorded(IdString(3), IdString(2))

\* C28: both ends of every built link are followed users and retained
\* nodes, the link stands for a recorded pair, and every retained node is a
\* followed user: an identifier from outside the follow list is no node and
\* no end of a link.
C28_EdgesWithinFollowSet ==
    ~gt.graphData.isNull =>
        /\ \A k \in 1..Len(BuiltLinks) :
              /\ ParseInt(BuiltLinks[k].source) \in Followed
              /\ ParseInt(BuiltLinks[k].target) \in Followed
              /\ BuiltLinks[k].source \in BuiltNodeIds
              /\ BuiltLinks[k].target \in BuiltNodeIds
              /\ IF gt.swapLinkDirection
                 THEN Recorded(BuiltLinks[k].target, BuiltLinks[k].source)
                 ELSE Recorded(BuiltLinks[k].source, BuiltLinks[k].target)
        /\ \A id \in BuiltNodeIds : ParseInt(id) \in Followed

\* user 1 names a user who is not followed and the followed user 2: one link
C28_Witness ==
    /\ ~gt.graphData.isNull
    /\ gt.commonFollowingsMap[1].list = <<OutsideMid, 2>>
    /\ BuiltPairs = { <<IdString(1), IdString(2)>> }

\* C29: no identifier is a node twice, also when the follow list holds it
\* more than once.
C29_NodeUniqueness ==
    \A i \in 1..Len(BuiltNodes), j \in 1..Len(BuiltNodes) :
        BuiltNodes[i].id = BuiltNodes[j].id => i = j

\* the follow list holds user 1 twice; users 1 and 2 are the nodes
C29_Witness ==
    /\ gt.followingsList = <<1, 2, 1>>
    /\ Len(BuiltNodes) = 2
    /\ BuiltNodeIds = { IdString(1), IdString(2) }

\* C30: after a build, total is the number of distinct identifiers of the
\* follow list, connected the number of retained nodes, links the number of
\* built links, and connected is at most total.
C30_Statistics ==
    ~gt.graphData.isNull =>
        /\ gt.stats.total = Cardinality(Followed)
        /\ gt.stats.connected = Len(BuiltNodes)
        /\ gt.stats.links = Len(BuiltLinks)
        /\ gt.stats.connected <= gt.stats.total

\* a follow list of three entries with two distinct users; user 1 names
\* himself, user 2 is isolated
C30_Witness ==
    /\ ~gt.graphData.isNull
    /\ gt.followingsList = <<1, 1, 2>>
    /\ gt.stats = [total |-> 2, connected |-> 1, links |-> 1]

\* C31: when request() calls are made one after another, a network attempt,
\* first or retry, is issued only when MIN_REQUEST_INTERVAL_MS have passed
\* since the attempt before it, no other request() is under way then, and
\* the attempt becomes the new last grant.
C31_SequentialSpacing ==
    [][\A r \in ReqIds :
          (req[r].st # "inflight" /\ req'[r].st = "inflight") =>
              /\ sinceLast >= MIN_REQUEST_INTERVAL_MS
              /\ sinceLast' = 0
              /\ \A o \in ReqIds \ {r} : ~InFlight(req'[o])]_vars

\* the second request() waits for the limiter after the first has settled
C31_Witness ==
    /\ nreq = 2
    /\ \E r \in ReqIds, o \in ReqIds :
          /\ req[r].st = "ratewait"
          /\ req[r].wait > 0
          /\ Settled(req[o])

\* the cache holds an entry for the key that has not expired
Unexpired(v) == cache[v] # NoEntry /\ cache[v].expiresIn >= 0

\* C32: a call of getCommonFollowings with useCache that finds an unexpired
\* entry under its key returns at once with that entry and fromCache = true;
\* the step makes no request(), leaves the limiter, the requests, the
\* pending promises and the cache as they are, and the call holds no promise.
C32_CacheHitFrame ==
    [][\A c \in Callers :
          (/\ caller[c].st = "idle"
           /\ caller'[c].st # "idle"
           /\ caller'[c].useCache
           /\ Unexpired(caller'[c].vmid))
          => /\ caller'[c].st = "done"
             /\ caller'[c].fromCache
             /\ caller'[c].result = Resolve(cache[caller'[c].vmid].data)
             /\ caller'[c].req = NoReq
             /\ nreq' = nreq
             /\ req' = req
             /\ pending' = pending
             /\ sinceLast' = sinceLast
             /\ cache' = cache]_vars

\* a call was served from the cache while a request for another key was
\* under way and the limiter was inside its interval
C32_Witness ==
    \E c \in Callers, r \in ReqIds :
        /\ caller[c].st = "done"
        /\ caller[c].fromCache
        /\ InFlight(req[r])
        /\ req[r].key # caller[c].vmid
        /\ pending[caller[c].vmid] = NoReq
        /\ sinceLast < MIN_REQUEST_INTERVAL_MS

\* the step in which the promise of request r settles
SettlesAs(r, st) ==
    req[r].st \in {"resolved", "rejected"} /\ req'[r].st = st

\* C33: while a request for a key runs, and until its outcome has been
\* handled, the pending map names it; the step that handles a success whose
\* write went through puts the entry into the cache as it removes the
\* pending promise; an entry stays until it has expired; a call for a key
\* with an unexpired entry starts no request; and a failed request leaves the
\* cache as it was.
C33_NoRefetchAfterSuccess ==
    [][/\ \A r \in ReqIds :
             /\ InFlight(req[r]) => pending[req[r].key] = r
             /\ (SettlesAs(r, "fulfilled") /\ req'[r].stored) =>
                   /\ cache'[req[r].key]
                         = [data |-> req[r].result.data, expiresIn |-> CacheTtlMs]
                   /\ req'[r].result = Resolve(req[r].result.data)
             /\ SettlesAs(r, "failed") => cache' = cache
             /\ (req[r].st = "unused" /\ req'[r].st # "unused") =>
                   ~Unexpired(req'[r].key)
       /\ \A v \in Vmids : Unexpired(v) => cache'[v] # NoEntry]_vars

\* after a fetch for a key succeeded and was stored, a later call for the key
\* was served from the cache, and only one request was ever made
C33_Witness ==
    /\ nreq = 1
    /\ req[1].st = "fulfilled"
    /\ req[1].stored
    /\ \E c \in Callers, d \in Callers :
          /\ c < d
          /\ caller[c].st = "done" /\ ~caller[c].fromCache
          /\ caller[d].st = "done" /\ caller[d].fromCache
          /\ caller[d].vmid = req[1].key
          /\ caller[c].vmid = req[1].key

\* ---- the incremental component: the start / pause button ----

\* the calls of loadAllData, in the order in which they are made
Runs == 1..MaxRuns

\* the first branch of handleStartPause: the status read from loadingState
CanStart(status) == status \in {"idle", "done", "error"}

\* loadAllData from the reset of the graph to the first page request:
\* setGraphData, setStats, setLoadingState({status: "loading_followings"})
BeginFollowings(c, k) ==
    [c EXCEPT !.runs[k] = "followings",
              !.status = "loading_followings",
              !.nodes = <<>>,
              !.links = <<>>,
              !.stats = [nodeCount |-> 0, linkCount |-> 0]]

\* loadAllData up to its first await; resolved: getCurrentUserMid() found an
\* identifier.  Without one the call waits for getCurrentUserMidFromAPI and
\* has written nothing to loadingState yet.
BeginLoad(c, k, resolved) ==
    IF resolved THEN BeginFollowings(c, k) ELSE [c EXCEPT !.runs[k] = "nav"]

\* the button is pressed: with the status idle, done or error loadAllData is
\* called, otherwise the pause flag is switched
onStartPause(resolved) ==
    /\ IF CanStart(comp.status)
       THEN \E k \in Runs :
               /\ comp.runs[k] = "none"
               /\ \A j \in 1..(k - 1) : comp.runs[j] # "none"
               /\ comp' = BeginLoad([comp EXCEPT !.isPaused = FALSE], k, resolved)
       ELSE comp' = [comp EXCEPT !.isPaused = ~@]
    /\ UNCHANGED <<sinceLast, cache, pending, req, nreq, caller, bo, cm,
                   loader, agg, gt>>

\* getCurrentUserMidFromAPI of call k comes back: the load goes on, or the
\* inner catch sets the status "error" and returns
IdentitySettles(k, ok) ==
    /\ comp.runs[k] = "nav"
    /\ comp' = IF ok
               THEN BeginFollowings(comp, k)
               ELSE [comp EXCEPT !.runs[k] = "ended", !.status = "error"]
    /\ UNCHANGED <<sinceLast, cache, pending, req, nreq, caller, bo, cm,
                   loader, agg, gt>>

\* the loop over the pages of call k is over: the status becomes
\* "loading_relations", or a page request threw and the outer catch sets the
\* status "error"
FollowingsEnd(k, ok) ==
    /\ comp.runs[k] = "followings"
    /\ comp' = IF ok
               THEN [comp EXCEPT !.runs[k] = "relations",
                                 !.status = "loading_relations"]
               ELSE [comp EXCEPT !.runs[k] = "ended", !.status = "error"]
    /\ UNCHANGED <<sinceLast, cache, pending, req, nreq, caller, bo, cm,
                   loader, agg, gt>>

\* the loop over the identifiers of call k is over: status "done"
RelationsEnd(k) ==
    /\ comp.runs[k] = "relations"
    /\ comp' = [comp EXCEPT !.runs[k] = "ended", !.status = "done"]
    /\ UNCHANGED <<sinceLast, cache, pending, req, nreq, caller, bo, cm,
                   loader, agg, gt>>

NextButton ==
    \/ \E resolved \in BOOLEAN : onStartPause(resolved)
    \/ \E k \in Runs, ok \in BOOLEAN : IdentitySettles(k, ok)
    \/ \E k \in Runs, ok \in BOOLEAN : FollowingsEnd(k, ok)
    \/ \E k \in Runs : RelationsEnd(k)

SpecButton == Init /\ [][NextButton]_vars

\* the calls of loadAllData that have not reached the status done or error
ActiveRuns == { k \in Runs : comp.runs[k] \in {"nav", "followings", "relations"} }

\* C34: at most one loadAllData is under way at any time, whatever the
\* sequence of button presses.
C34_SingleLoad == Cardinality(ActiveRuns) <= 1

\* loadAllData of the hook has returned
LoadEnded == loader.pc \in {"done", "failed"}

\* C35: every run of the hook's loadAllData comes to an end, and when it has
\* ended the loading flag is false; while it runs the flag is true; after a
\* run that failed (no identity, or a follow-list request that threw)
\* dataLoaded is false.
C35_LoadingReset ==
    /\ [](loader.kind = "hook" =>
            /\ LoadEnded => ~loader.loading
            /\ loader.pc = "failed" => ~loader.dataLoaded
            /\ loader.pc \in {"page", "aggregating"} =>
                  loader.loading /\ ~loader.dataLoaded)
    /\ (loader.kind = "hook" /\ loader.loading) ~> (LoadEnded /\ ~loader.loading)

\* a load that followed an earlier one has failed on a page after the first
C35_Witness ==
    /\ loader.kind = "hook"
    /\ loader.pc = "failed"
    /\ loader.got = "failed"
    /\ loader.page >= 2
    /\ loader.followingsList # <<>>
    /\ ~loader.loading

\* what the hook returns, as the arguments of useGraphTransform: the
\* identifiers are the positions in the list, a list that was fetched is
\* taken as empty
HookOutput ==
    [NoGraph EXCEPT
        !.followingsList = [i \in 1..SumLen(loader.followingsList) |-> i],
        !.commonFollowingsMap =
            [id \in 1..agg.n |->
                IF agg.map[id] = "unset" THEN NoList ELSE List(<<>>)],
        !.dataLoaded = loader.dataLoaded]

\* C36: whenever dataLoaded is true the aggregation has been published and
\* its map has an entry for every identifier of the follow list that was
\* published; when dataLoaded is false the transform builds no graph.
C36_LoadedMeansComplete ==
    loader.kind = "hook" =>
       /\ loader.dataLoaded =>
             /\ agg.st = "done"
             /\ agg.published
             /\ agg.n = SumLen(loader.followingsList)
             /\ \A id \in 1..agg.n : agg.map[id] # "unset"
       /\ ~loader.dataLoaded => useGraphTransform(HookOutput).graphData.isNull

\* a load has ended with dataLoaded set; one of its calls failed and has the
\* empty list as its entry; the transform builds a graph
C36_Witness ==
    /\ loader.kind = "hook"
    /\ loader.dataLoaded
    /\ agg.n >= 2
    /\ \E id \in 1..agg.n : agg.map[id] = "empty"
    /\ ~useGraphTransform(HookOutput).graphData.isNull

\* ---- the incremental component: the graph ----

\* the longest argument of a call, and the longest list that is followed
MaxArgLen == 2
MaxGraphLen == 3

\* node ids of the incremental graph
GraphIds == {1, 2}

\* the arguments of the calls: lists of nodes, lists of links, with repeats
SeqsOver(S) == UNION { [1..n -> S] : n \in 1..MaxArgLen }

\* { source, target }
GraphLink(source, target) == [source |-> source, target |-> target]

\* existingLinkSet
ExistingLinkSet(links) ==
    { LinkKey(links[i].source, links[i].target) : i \in DOMAIN links }

\* newNodes.filter((n) => !existingIds.has(n.id)): the set is built from
\* prev.nodes once, before the filter runs
UniqueNewNodes(prevNodes, newNodes) ==
    LET existingIds == { prevNodes[i] : i \in DOMAIN prevNodes }
        fresh(n) == n \notin existingIds
    IN  SelectSeq(newNodes, fresh)

\* newLinks.filter(...): the keys are those of prev.links
UniqueNewLinks(prevLinks, newLinks) ==
    LET existingLinkSet == ExistingLinkSet(prevLinks)
        fresh(l) == LinkKey(l.source, l.target) \notin existingLinkSet
    IN  SelectSeq(newLinks, fresh)

\* addNodesToGraph: setGraphData(prev => ...) and setStats
addNodesToGraph(newNodes) ==
    /\ Len(comp.nodes) + Len(newNodes) <= MaxGraphLen
    /\ LET uniqueNewNodes == UniqueNewNodes(comp.nodes, newNodes)
           updatedNodes == comp.nodes \o uniqueNewNodes
       IN  comp' = IF Len(uniqueNewNodes) = 0 THEN comp
                   ELSE [comp EXCEPT
                           !.nodes = updatedNodes,
                           !.stats = [nodeCount |-> Len(updatedNodes),
                                      linkCount |-> Len(comp.links)]]
    /\ UNCHANGED <<sinceLast, cache, pending, req, nreq, caller, bo, cm,
                   loader, agg, gt>>

\* addLinksToGraph: setGraphData(prev => ...) and setStats; the neighbour
\* lists it fills on the node objects are not followed
addLinksToGraph(newLinks) ==
    /\ Len(comp.links) + Len(newLinks) <= MaxGraphLen
    /\ LET uniqueNewLinks == UniqueNewLinks(comp.links, newLinks)
           updatedLinks == comp.links \o uniqueNewLinks
       IN  comp' = IF Len(uniqueNewLinks) = 0 THEN comp
                   ELSE [comp EXCEPT
                           !.links = updatedLinks,
                           !.stats = [nodeCount |-> Len(comp.nodes),
                                      linkCount |-> Len(updatedLinks)]]
    /\ UNCHANGED <<sinceLast, cache, pending, req, nreq, caller, bo, cm,
                   loader, agg, gt>>

NextIncGraph ==
    \/ \E newNodes \in SeqsOver(GraphIds) : addNodesToGraph(newNodes)
    \/ \E newLinks \in SeqsOver({ GraphLink(a, b) : a, b \in GraphIds }) :
          addLinksToGraph(newLinks)

SpecIncGraph == Init /\ [][NextIncGraph]_vars

\* C37: the link list of the incremental graph holds no two links with the
\* same ordered (source, target) pair and its node list no two nodes with
\* the same id.
C37_IncrementalUnique ==
    /\ \A i, j \in DOMAIN comp.nodes :
          comp.nodes[i] = comp.nodes[j] => i = j
    /\ \A i, j \in DOMAIN comp.links :
          (/\ comp.links[i].source = comp.links[j].source
           /\ comp.links[i].target = comp.links[j].target) => i = j

\* the load is suspended in waitForResume
Waiting == loader.pc = "waitresume" \/ agg.st = "waitresume"

\* the incremental load is under way
Running ==
    /\ loader.kind = "incremental"
    /\ loader.pc \in {"nav", "page", "pagesleep", "waitresume", "aggregating"}

\* C38: if the pause flag is cleared and stays cleared, a load that waits in
\* waitForResume resumes and the load reaches done or error; whatever the
\* presses, the pages are requested once each in order, a call that was
\* made for an identifier is not made again, and a load that is done has
\* requested every page and made the call for every identifier.
C38_ResumeCompletes ==
    /\ [](loader.requested = [i \in 1..Len(loader.requested) |-> i])
    /\ [](loader.pc = "done" =>
             /\ Len(loader.requested) = Max(loader.totalPages, 1)
             /\ agg.n = SumLen(loader.allFollowings)
             /\ \A id \in 1..agg.n : agg.fetch[id] \notin {"none", "inflight"})
    /\ [][\A id \in DOMAIN agg.fetch :
             (agg.fetch[id] # "none" /\ id \in DOMAIN agg'.fetch) =>
                 \/ agg'.fetch[id] = agg.fetch[id]
                 \/ agg.fetch[id] = "inflight" /\ agg'.fetch[id] \in {"ok", "fail"}]_vars
    /\ (<>[](~loader.paused)) => (Waiting ~> ~Waiting)
    /\ (<>[](~loader.paused)) => (Running ~> LoadEnded)

\* a load that was resumed in the page loop and in the loop over the
\* identifiers has reached the status done
C38_Witness ==
    /\ loader.kind = "incremental"
    /\ loader.pc = "done"
    /\ loader.resumed >= 2
    /\ loader.requested = <<1, 2>>
    /\ agg.n >= 2

\* ---- ForceGraphCanvas: the links given to force-graph ----

\* processedLinks: with swapLinkDirection every link of graphData is copied
\* with its source and target exchanged
ProcessedLinks(links, swapLinkDirection) ==
    IF swapLinkDirection
    THEN [i \in DOMAIN links |->
             [links[i] EXCEPT !.source = links[i].target,
                              !.target = links[i].source]]
    ELSE links

\* graphRef.current.graphData({nodes, links}): the links the effect hands
\* over for the result g of useGraphTransform
HandedLinks(g) == ProcessedLinks(g.graphData.links, g.swapLinkDirection)

\* C39: for the same loaded data, the links handed to force-graph with
\* swapLinkDirection set are those handed to it without, each with source
\* and target exchanged.
C39_RendererReversal ==
    LET on == useGraphTransform([gt EXCEPT !.swapLinkDirection = TRUE])
        off == useGraphTransform([gt EXCEPT !.swapLinkDirection = FALSE])
    IN  ~off.graphData.isNull =>
           HandedLinks(on) =
              [i \in DOMAIN HandedLinks(off) |-> Exchanged(HandedLinks(off)[i])]

\* C40: no built link has the same user as source and target.
C40_NoSelfLoop ==
    ~gt.graphData.isNull =>
        \A k \in DOMAIN gt.graphData.links :
            gt.graphData.links[k].source # gt.graphData.links[k].target

====
